---- MODULE Spec2Model ----
(***************************************************************************)
(* The subscription engine of ipld-eth-server (package serve, type         *)
(* Service): Subscribe, Unsubscribe, Stop, the live serve loop             *)
(* (Serve / filterAndServe) and the per-subscription backfill task         *)
(* (sendHistoricalData).                                                   *)
(*                                                                         *)
(* Subscribe, Unsubscribe and Stop are each one action: their critical     *)
(* sections hold the engine mutex and contain no blocking operation.       *)
(* filterAndServe holds the mutex over one step per type bucket, and the   *)
(* backfill goroutine runs one step per block / per CID wrapper, so that   *)
(* both interleave with every other operation.                             *)
(***************************************************************************)
EXTENDS Integers, Sequences, FiniteSets, TLC

VARIABLES
    Subscriptions,      \* map type hash -> set of subscription ids (the bucket)
    SubscriptionTypes,  \* map type hash -> subscription params
    QuitChan,           \* "open" or "closed": the engine's quit channel
    mutex,              \* "free", "serve" (filterAndServe) or "stop" (a panicked Stop)
    panicked,           \* TRUE once a goroutine has panicked (the process is gone)
    stops,              \* number of Stop calls made
    called,             \* id -> has Subscribe(id, ...) been called
    subParams,          \* id -> the params Subscribe was called with
    PayloadChan,        \* id -> number of payloads buffered in the subscriber's payload channel
    quitSignals,        \* id -> number of sendNonBlockingQuit attempts on the subscription
    terminated,         \* id -> the subscription was removed from its bucket
    liveSeq,            \* id -> sequence number of the last live payload attempted to id
    screenAndServePayload, \* the indexer -> engine channel
    produced,           \* number of payloads the indexer has pushed
    servePc,            \* "recv", "serving" or "done": the Serve goroutine
    servePayload,       \* the payload filterAndServe is working on
    serveLeft,          \* type hashes the range loop of filterAndServe has still to visit
    indexFirst,         \* RetrieveFirstBlockNumber()
    indexLast,          \* RetrieveLastBlockNumber()
    bfPc,               \* id -> "none", "loop", "fetch", "done" or "quit": the backfill goroutine
    bfI,                \* id -> the loop variable i of the backfill goroutine
    bfEnd,              \* id -> endingBlock
    bfLeft,             \* id -> CID wrappers of block i still to fetch
    bfLast,             \* id -> height of the last backfill data payload attempted
    bfErr,              \* id -> a retrieval or fetch error occurred during the backfill
    sentinels,          \* id -> number of BackFillComplete sends attempted
    ev,                 \* the step just taken
    db,                 \* the rows of the index database a retriever reads
    req,                \* the retriever call being answered
    reply,              \* what the call returned
    txn                 \* the events of the database transaction the call began

\* the state of the subscription engine
engineVars == <<Subscriptions, SubscriptionTypes, QuitChan, mutex, panicked, stops, called,
                subParams, PayloadChan, quitSignals, terminated, liveSeq,
                screenAndServePayload, produced, servePc, servePayload, serveLeft,
                indexFirst, indexLast, bfPc, bfI, bfEnd, bfLeft, bfLast, bfErr, sentinels, ev>>

\* the state of one retriever call
queryVars == <<db, req, reply, txn>>

vars == <<engineVars, queryVars>>

----------------------------------------------------------------------------
(* Bounds *)

MaxSubs == 2
MaxBlock == 3
MaxPayloads == 2
MaxStops == 2
ChanCap == 2

IDs == 1..MaxSubs
Blocks == 0..MaxBlock

----------------------------------------------------------------------------
(* Values *)

EmptyFlag == "EmptyFlag"
BackFillCompleteFlag == "BackFillCompleteFlag"

NoType == <<>>
NoData == <<>>
NoPayload == [Data |-> NoData, Err |-> "", Flag |-> "", Height |-> -1]
NoParams == [BackFill |-> FALSE, BackFillOnly |-> FALSE, Start |-> 0, End |-> 0, Filter |-> ""]
NoBlock == [seq |-> 0, number |-> 0]

\* eth.SubscriptionSettings: BackFill, BackFillOnly, Start, End and the filters.
Settings(bf, bfo, s, e, f) ==
    [BackFill |-> bf, BackFillOnly |-> bfo, Start |-> s, End |-> e, Filter |-> f]

\* rlp.EncodeToBytes(params): a negative big.Int cannot be RLP-encoded.
RlpEncodable(params) == params.Start >= 0 /\ params.End >= 0

RlpEncode(params) ==
    <<params.BackFill, params.BackFillOnly, params.Start, params.End, params.Filter>>

\* crypto.Keccak256Hash(by): collision-free on the encodings of the model.
Keccak256Hash(by) == <<"keccak256", by>>

SubscriptionType(params) == Keccak256Hash(RlpEncode(params))

----------------------------------------------------------------------------
(* Go maps *)

MapPut(m, k, v) == [x \in (DOMAIN m) \cup {k} |-> IF x = k THEN v ELSE m[x]]

MapDelete(m, k) == [x \in (DOMAIN m) \ {k} |-> m[x]]

MapGet(m, k, d) == IF k \in DOMAIN m THEN m[k] ELSE d

EmptyMap == [x \in {} |-> {}]

\* ids registered in some bucket
Registered == UNION {Subscriptions[ty] : ty \in DOMAIN Subscriptions}

----------------------------------------------------------------------------
(* Non-blocking sends: select { case ch <- v: ... default: ... } *)

\* A subscriber's payload channel is modelled by the number of payloads it buffers; the
\* payload a step tries to send is recorded in ev.
CanSend(ch, id) == ch[id] < ChanCap

\* mutant: the send is made whether or not the channel has room
TrySendAlways(ch, id) == [ch EXCEPT ![id] = @ + 1]

\* the channel after a try-send to id: one more buffered when there is room, dropped
\* otherwise
TrySend(ch, id) ==
    IF CanSend(ch, id) THEN [ch EXCEPT ![id] = @ + 1] ELSE ch

\* try-send to every id of ids
TrySendAll(ch, ids) ==
    [id \in IDs |-> IF id \in ids /\ CanSend(ch, id) THEN ch[id] + 1 ELSE ch[id]]

ErrPayload(msg) == [Data |-> NoData, Err |-> msg, Flag |-> EmptyFlag, Height |-> 0]

\* sendNonBlockingErr(sub, err)
sendNonBlockingErr(ch, id) == TrySend(ch, id)

\* sendNonBlockingQuit(sub) on every subscription of ids
sendNonBlockingQuit(qs, ids) == [id \in IDs |-> IF id \in ids THEN qs[id] + 1 ELSE qs[id]]

\* The step just taken: the operation, the subscription and bucket it worked on, how it
\* ended, the payload it tried to send to each subscriber, the subscribers whose channel
\* was full (the payload was dropped), and the number of Filter calls it made.
NoSend == [i \in {} |-> NoPayload]

One(id, pl) == [i \in {id} |-> pl]

\* a step that neither sends nor changes a subscription
Idle == [op |-> "Idle", id |-> 0, ty |-> NoType, out |-> "", sent |-> NoSend, drop |-> {},
         calls |-> 0]

Event(op, id, ty, out, sent, calls) ==
    [op |-> op, id |-> id, ty |-> ty, out |-> out, sent |-> sent,
     drop |-> {i \in DOMAIN sent : ~CanSend(PayloadChan, i)}, calls |-> calls]

----------------------------------------------------------------------------
(* Subscribe *)

\* mutant: the insert is made only when the bucket is new
SubscribeInsertNew(subs, ty, id) ==
    IF ty \in DOMAIN subs THEN subs ELSE MapPut(subs, ty, {id})

\* sap.Subscriptions after the insert of id under subscriptionType
SubscribeInsert(subs, ty, id) == MapPut(subs, ty, MapGet(subs, ty, {}) \cup {id})

\* sap.SubscriptionTypes after the params are recorded
SubscribeRecord(types, ty, params) == MapPut(types, ty, params)

\* startingBlock of sendHistoricalData
startingBlock(first, params) == IF first < params.Start THEN params.Start ELSE first

\* endingBlock of sendHistoricalData
endingBlock(last, start, params) ==
    IF last > params.End /\ params.End > 0 /\ params.End > start THEN params.End ELSE last

\* Subscribe(id, sub, quitChan, params); idxErr: RetrieveFirstBlockNumber or
\* RetrieveLastBlockNumber fails.  An rpc.ID names one subscription, so Subscribe is
\* called once per id.
Subscribe(id, params, idxErr) ==
    /\ ~panicked
    /\ UNCHANGED queryVars
    /\ ~called[id]
    /\ (RlpEncodable(params) /\ ~params.BackFillOnly) => mutex = "free"
    /\ called' = [called EXCEPT ![id] = TRUE]
    /\ subParams' = [subParams EXCEPT ![id] = params]
    /\ IF ~RlpEncodable(params)
       THEN /\ PayloadChan' = sendNonBlockingErr(PayloadChan, id)
            /\ quitSignals' = sendNonBlockingQuit(quitSignals, {id})
            /\ UNCHANGED <<Subscriptions, SubscriptionTypes, bfPc, bfI, bfEnd>>
            /\ ev' = Event("Subscribe", id, NoType, "rlpErr", One(id, ErrPayload("rlp")), 0)
       ELSE LET ty == SubscriptionType(params)
                start == startingBlock(indexFirst, params)
            IN  /\ IF ~params.BackFillOnly
                   THEN /\ Subscriptions' = SubscribeInsert(Subscriptions, ty, id)
                        /\ SubscriptionTypes' = SubscribeRecord(SubscriptionTypes, ty, params)
                   ELSE UNCHANGED <<Subscriptions, SubscriptionTypes>>
                /\ IF params.BackFill \/ params.BackFillOnly
                   THEN IF idxErr
                        THEN /\ PayloadChan' = sendNonBlockingErr(PayloadChan, id)
                             /\ quitSignals' = sendNonBlockingQuit(quitSignals, {id})
                             /\ UNCHANGED <<bfPc, bfI, bfEnd>>
                             /\ ev' = Event("Subscribe", id, ty, "backfillErr",
                                            One(id, ErrPayload("backfill")), 0)
                        ELSE /\ bfPc' = [bfPc EXCEPT ![id] = "loop"]
                             /\ bfI' = [bfI EXCEPT ![id] = start]
                             /\ bfEnd' = [bfEnd EXCEPT ![id] = endingBlock(indexLast, start, params)]
                             /\ UNCHANGED <<PayloadChan, quitSignals>>
                             /\ ev' = Event("Subscribe", id, ty, "backfill", NoSend, 0)
                   ELSE /\ UNCHANGED <<PayloadChan, quitSignals, bfPc, bfI, bfEnd>>
                        /\ ev' = Event("Subscribe", id, ty, "live", NoSend, 0)
    /\ UNCHANGED <<QuitChan, mutex, panicked, stops, terminated, liveSeq,
                   screenAndServePayload, produced, servePc, servePayload, serveLeft,
                   indexFirst, indexLast, bfLeft, bfLast, bfErr, sentinels>>

----------------------------------------------------------------------------
(* Unsubscribe *)

\* mutant: an emptied bucket is kept
UnsubscribeSubsKeep(subs, id) == [ty \in DOMAIN subs |-> subs[ty] \ {id}]

\* sap.Subscriptions after the range loop of Unsubscribe
UnsubscribeSubs(subs, id) ==
    [ty \in {t \in DOMAIN subs : subs[t] \ {id} # {}} |-> subs[ty] \ {id}]

\* mutant: the params of every bucket visited are deleted, emptied or not
UnsubscribeTypesAlways(subs, types, id) == [ty \in (DOMAIN types) \ (DOMAIN subs) |-> types[ty]]

\* sap.SubscriptionTypes after the range loop of Unsubscribe
UnsubscribeTypes(subs, types, id) ==
    [ty \in {t \in DOMAIN types : t \notin DOMAIN subs \/ subs[t] \ {id} # {}} |-> types[ty]]

\* mutant: Unsubscribe does not take the mutex
UnsubscribeUnlocked(id) ==
    /\ ~panicked
    /\ UNCHANGED queryVars
    /\ Subscriptions' = UnsubscribeSubs(Subscriptions, id)
    /\ SubscriptionTypes' = UnsubscribeTypes(Subscriptions, SubscriptionTypes, id)
    /\ terminated' = [terminated EXCEPT ![id] = @ \/ id \in Registered]
    /\ ev' = Event("Unsubscribe", id, NoType,
                   IF id \in Registered THEN "removed" ELSE "absent", NoSend, 0)
    /\ UNCHANGED <<QuitChan, mutex, panicked, stops, called, subParams, PayloadChan,
                   quitSignals, liveSeq, screenAndServePayload, produced, servePc,
                   servePayload, serveLeft, indexFirst, indexLast, bfPc, bfI, bfEnd,
                   bfLeft, bfLast, bfErr, sentinels>>

\* Unsubscribe(id)
Unsubscribe(id) ==
    /\ ~panicked
    /\ UNCHANGED queryVars
    /\ mutex = "free"
    /\ Subscriptions' = UnsubscribeSubs(Subscriptions, id)
    /\ SubscriptionTypes' = UnsubscribeTypes(Subscriptions, SubscriptionTypes, id)
    /\ terminated' = [terminated EXCEPT ![id] = @ \/ id \in Registered]
    /\ ev' = Event("Unsubscribe", id, NoType,
                   IF id \in Registered THEN "removed" ELSE "absent", NoSend, 0)
    /\ UNCHANGED <<QuitChan, mutex, panicked, stops, called, subParams, PayloadChan,
                   quitSignals, liveSeq, screenAndServePayload, produced, servePc,
                   servePayload, serveLeft, indexFirst, indexLast, bfPc, bfI, bfEnd,
                   bfLeft, bfLast, bfErr, sentinels>>

----------------------------------------------------------------------------
(* Stop, close, closeType *)

\* closeType(subType): quit every member, delete the bucket and its params
closeTypeQuit(subs, qs, ty) == sendNonBlockingQuit(qs, MapGet(subs, ty, {}))

closeTypeSubs(subs, ty) == MapDelete(subs, ty)

\* mutant: closeType leaves the params of the bucket
closeTypeTypesKeep(types, ty) == types

closeTypeTypes(types, ty) == MapDelete(types, ty)

\* close(): quit every subscription, delete every bucket and its params
closeQuit(subs, qs) == sendNonBlockingQuit(qs, UNION {subs[ty] : ty \in DOMAIN subs})

closeSubs(subs) == [ty \in {} |-> {}]

\* mutant: close leaves the params map alone
closeTypesKeep(subs, types) == types

closeTypes(subs, types) == [ty \in (DOMAIN types) \ (DOMAIN subs) |-> types[ty]]

\* Stop(): close(sap.QuitChan) panics when the channel is already closed, and the
\* panic leaves the mutex locked (the unlock is not deferred).
Stop ==
    /\ ~panicked
    /\ UNCHANGED queryVars
    /\ stops < MaxStops
    /\ mutex = "free"
    /\ stops' = stops + 1
    /\ IF QuitChan = "closed"
       THEN /\ panicked' = TRUE
            /\ mutex' = "stop"
            /\ ev' = Event("Stop", 0, NoType, "panic", NoSend, 0)
            /\ UNCHANGED <<QuitChan, Subscriptions, SubscriptionTypes, quitSignals, terminated>>
       ELSE /\ QuitChan' = "closed"
            /\ quitSignals' = closeQuit(Subscriptions, quitSignals)
            /\ Subscriptions' = closeSubs(Subscriptions)
            /\ SubscriptionTypes' = closeTypes(Subscriptions, SubscriptionTypes)
            /\ terminated' = [id \in IDs |-> terminated[id] \/ id \in Registered]
            /\ ev' = Event("Stop", 0, NoType, "closed", NoSend, 0)
            /\ UNCHANGED <<panicked, mutex>>
    /\ UNCHANGED <<called, subParams, PayloadChan, liveSeq, screenAndServePayload,
                   produced, servePc, servePayload, serveLeft, indexFirst, indexLast,
                   bfPc, bfI, bfEnd, bfLeft, bfLast, bfErr, sentinels>>

----------------------------------------------------------------------------
(* The live path: Serve and filterAndServe *)

\* sap.Filterer.Filter(subConfig, payload): the response for one bucket
Filter(subConfig, payload) ==
    [BlockNumber |-> payload.number, body |-> <<subConfig.Filter, payload.seq>>]

\* rlp.EncodeToBytes(response)
EncodeResponse(response) == <<"rlp", response.BlockNumber, response.body>>

\* SubscriptionPayload{Data: responseRLP, Err: "", Flag: EmptyFlag, Height: response.BlockNumber}
DataPayload(response) ==
    [Data |-> EncodeResponse(response), Err |-> "", Flag |-> EmptyFlag,
     Height |-> response.BlockNumber]

\* the payload the fan-out loop sends to member id of the bucket
MemberPayload(response, id) == DataPayload(response)

\* mutant: a bucket is closed already at the payload of block End
OutOfRangeInclusive(subConfig, payload) == subConfig.End > 0 /\ subConfig.End <= payload.number

\* the end-of-range test of filterAndServe
OutOfRange(subConfig, payload) == subConfig.End > 0 /\ subConfig.End < payload.number

\* the indexer pushes the converted payload of the next block: block numbers ascend
Produce ==
    /\ ~panicked
    /\ UNCHANGED queryVars
    /\ produced < MaxPayloads
    /\ produced' = produced + 1
    /\ screenAndServePayload' = Append(screenAndServePayload, [seq |-> produced + 1, number |-> produced + 1])
    /\ ev' = Idle
    /\ UNCHANGED <<Subscriptions, SubscriptionTypes, QuitChan, mutex, panicked, stops, called,
                   subParams, PayloadChan, quitSignals, terminated, liveSeq, servePc,
                   servePayload, serveLeft, indexFirst, indexLast, bfPc, bfI, bfEnd, bfLeft,
                   bfLast, bfErr, sentinels>>

\* mutant: the Serve loop takes the newest payload of the channel
ServeNextLast(ch) == ch[Len(ch)]

\* the payload the Serve loop receives next
ServeNext(ch) == Head(ch)

ServeRest(ch) == Tail(ch)

\* Serve: case payload := <-screenAndServePayload, then filterAndServe locks
ServeRecv ==
    /\ ~panicked
    /\ UNCHANGED queryVars
    /\ servePc = "recv"
    /\ screenAndServePayload # <<>>
    /\ mutex = "free"
    /\ servePayload' = ServeNext(screenAndServePayload)
    /\ screenAndServePayload' = ServeRest(screenAndServePayload)
    /\ mutex' = "serve"
    /\ serveLeft' = DOMAIN Subscriptions
    /\ servePc' = "serving"
    /\ ev' = Idle
    /\ UNCHANGED <<Subscriptions, SubscriptionTypes, QuitChan, panicked, stops, called,
                   subParams, PayloadChan, quitSignals, terminated, liveSeq, produced,
                   indexFirst, indexLast, bfPc, bfI, bfEnd, bfLeft, bfLast, bfErr, sentinels>>

\* Serve: case <-sap.QuitChan
ServeQuit ==
    /\ ~panicked
    /\ UNCHANGED queryVars
    /\ servePc = "recv"
    /\ QuitChan = "closed"
    /\ servePc' = "done"
    /\ ev' = Idle
    /\ UNCHANGED <<Subscriptions, SubscriptionTypes, QuitChan, mutex, panicked, stops, called,
                   subParams, PayloadChan, quitSignals, terminated, liveSeq,
                   screenAndServePayload, produced, servePayload, serveLeft, indexFirst,
                   indexLast, bfPc, bfI, bfEnd, bfLeft, bfLast, bfErr, sentinels>>

\* what one iteration of the range loop of filterAndServe does with bucket ty:
\* "noConfig", "outOfRange", "filterErr" (the bucket is closed), "rlpErr" (skipped)
\* or "served"
BucketOutcome(types, ty, payload, fails) ==
    IF ty \notin DOMAIN types THEN "noConfig"
    ELSE IF OutOfRange(types[ty], payload) THEN "outOfRange"
    ELSE IF fails = "filterErr" THEN "filterErr"
    ELSE IF fails = "rlpErr" THEN "rlpErr"
    ELSE "served"

\* mutant: a bucket whose response cannot be encoded is closed too
BucketClosesOnRlpErr(out) == out \in {"noConfig", "outOfRange", "filterErr", "rlpErr"}

BucketCloses(out) == out \in {"noConfig", "outOfRange", "filterErr"}

\* mutant: Filter is called inside the member loop
FilterCallsPerMember(out, members) ==
    IF out \in {"noConfig", "outOfRange"} THEN 0 ELSE Cardinality(members)

\* number of Filter calls one iteration makes
FilterCalls(out, members) == IF out \in {"noConfig", "outOfRange"} THEN 0 ELSE 1

\* the members of bucket ty the fan-out loop tries to send to
FanOut(subs, ty) == subs[ty]

\* one iteration of for ty, subs := range sap.Subscriptions; fails: the error, if any,
\* that Filter or the RLP encoding of the response returns
ServeBucket(ty, fails) ==
    /\ ~panicked
    /\ UNCHANGED queryVars
    /\ servePc = "serving"
    /\ ty \in serveLeft
    /\ serveLeft' = serveLeft \ {ty}
    /\ LET out == BucketOutcome(SubscriptionTypes, ty, servePayload, fails)
           members == MapGet(Subscriptions, ty, {})
       IN  IF BucketCloses(out)
           THEN /\ quitSignals' = closeTypeQuit(Subscriptions, quitSignals, ty)
                /\ Subscriptions' = closeTypeSubs(Subscriptions, ty)
                /\ SubscriptionTypes' = closeTypeTypes(SubscriptionTypes, ty)
                /\ terminated' = [id \in IDs |-> terminated[id] \/ id \in members]
                /\ ev' = Event("ServeBucket", 0, ty, out, NoSend,
                               FilterCalls(out, members))
                /\ UNCHANGED <<PayloadChan, liveSeq>>
           ELSE IF out = "rlpErr"
           THEN /\ ev' = Event("ServeBucket", 0, ty, out, NoSend,
                               FilterCalls(out, members))
                /\ UNCHANGED <<Subscriptions, SubscriptionTypes, quitSignals, terminated,
                               PayloadChan, liveSeq>>
           ELSE LET response == Filter(SubscriptionTypes[ty], servePayload)
                    att == FanOut(Subscriptions, ty)
                IN  /\ PayloadChan' = TrySendAll(PayloadChan, att)
                    /\ liveSeq' = [id \in IDs |-> IF id \in att THEN servePayload.seq
                                                  ELSE liveSeq[id]]
                    /\ ev' = Event("ServeBucket", 0, ty, out,
                                   [id \in att |-> MemberPayload(response, id)],
                                   FilterCalls(out, members))
                    /\ UNCHANGED <<Subscriptions, SubscriptionTypes, quitSignals, terminated>>
    /\ UNCHANGED <<QuitChan, mutex, panicked, stops, called, subParams,
                   screenAndServePayload, produced, servePc, servePayload, indexFirst,
                   indexLast, bfPc, bfI, bfEnd, bfLeft, bfLast, bfErr, sentinels>>

\* filterAndServe returns: the deferred sap.Unlock()
ServeDone ==
    /\ ~panicked
    /\ UNCHANGED queryVars
    /\ servePc = "serving"
    /\ serveLeft = {}
    /\ mutex' = "free"
    /\ servePc' = "recv"
    /\ servePayload' = NoBlock
    /\ ev' = Idle
    /\ UNCHANGED <<Subscriptions, SubscriptionTypes, QuitChan, panicked, stops, called,
                   subParams, PayloadChan, quitSignals, terminated, liveSeq,
                   screenAndServePayload, produced, serveLeft, indexFirst, indexLast,
                   bfPc, bfI, bfEnd, bfLeft, bfLast, bfErr, sentinels>>

----------------------------------------------------------------------------
(* The backfill goroutine of sendHistoricalData *)

MaxHeaders == 2

\* the response IPLDFetcher.Fetch builds from the k-th CID wrapper of block i
FetchResponse(params, i, k) == [BlockNumber |-> i, body |-> <<params.Filter, k>>]

\* SubscriptionPayload{Data: nil, Err: "", Flag: BackFillCompleteFlag}
CompletePayload == [Data |-> NoData, Err |-> "", Flag |-> BackFillCompleteFlag, Height |-> 0]

\* the loop condition i <= endingBlock
InRange(i, end) == i <= end

\* mutant: i--
NextBlockDown(i) == i - 1

\* i++
NextBlock(i) == i + 1

\* mutant: a Retrieve error returns from the goroutine
OnRetrieveErrReturn == "quit"

\* where the loop goes after a Retrieve error: continue
OnRetrieveErr == "loop"

\* mutant: the loop body does not look at sap.QuitChan
QuitObservedNever(q) == FALSE

\* the select on sap.QuitChan at the top of the loop body
QuitObserved(q) == q = "closed"

\* the top of one iteration of for i := startingBlock; i <= endingBlock; i++ up to the
\* result of Retrieve(params, i), or the completion notice after the loop.
\* res: "err", "empty" or "ok" with n CID wrappers (one per header at height i)
BackfillLoop(id, res, n) ==
    /\ ~panicked
    /\ UNCHANGED queryVars
    /\ bfPc[id] = "loop"
    /\ IF ~InRange(bfI[id], bfEnd[id])
       THEN /\ PayloadChan' = TrySend(PayloadChan, id)
            /\ sentinels' = [sentinels EXCEPT ![id] = @ + 1]
            /\ bfPc' = [bfPc EXCEPT ![id] = "done"]
            /\ ev' = Event("BackfillLoop", id, NoType, "complete", One(id, CompletePayload), 0)
            /\ UNCHANGED <<bfI, bfLeft, bfErr>>
       ELSE IF QuitObserved(QuitChan)
       THEN /\ bfPc' = [bfPc EXCEPT ![id] = "quit"]
            /\ ev' = Event("BackfillLoop", id, NoType, "quit", NoSend, 0)
            /\ UNCHANGED <<PayloadChan, sentinels, bfI, bfLeft, bfErr>>
       ELSE IF res = "err"
       THEN /\ PayloadChan' = sendNonBlockingErr(PayloadChan, id)
            /\ bfErr' = [bfErr EXCEPT ![id] = TRUE]
            /\ bfI' = [bfI EXCEPT ![id] = NextBlock(@)]
            /\ bfPc' = [bfPc EXCEPT ![id] = OnRetrieveErr]
            /\ ev' = Event("BackfillLoop", id, NoType, "retrieveErr",
                           One(id, ErrPayload("retrieve")), 0)
            /\ UNCHANGED <<sentinels, bfLeft>>
       ELSE IF res = "empty"
       THEN /\ bfI' = [bfI EXCEPT ![id] = NextBlock(@)]
            /\ ev' = Event("BackfillLoop", id, NoType, "empty", NoSend, 0)
            /\ UNCHANGED <<PayloadChan, sentinels, bfPc, bfLeft, bfErr>>
       ELSE /\ bfLeft' = [bfLeft EXCEPT ![id] = n]
            /\ bfPc' = [bfPc EXCEPT ![id] = "fetch"]
            /\ ev' = Event("BackfillLoop", id, NoType, "retrieved", NoSend, 0)
            /\ UNCHANGED <<PayloadChan, sentinels, bfI, bfErr>>
    /\ UNCHANGED <<Subscriptions, SubscriptionTypes, QuitChan, mutex, panicked, stops, called,
                   subParams, quitSignals, terminated, liveSeq, screenAndServePayload,
                   produced, servePc, servePayload, serveLeft, indexFirst, indexLast, bfEnd,
                   bfLast>>

\* one iteration of for _, cids := range cidWrappers; res: "ok", "fetchErr" (Fetch
\* fails) or "rlpErr" (the response cannot be encoded)
BackfillFetch(id, res) ==
    /\ ~panicked
    /\ UNCHANGED queryVars
    /\ bfPc[id] = "fetch"
    /\ LET pl == DataPayload(FetchResponse(subParams[id], bfI[id], bfLeft[id]))
       IN  IF res = "fetchErr"
           THEN /\ PayloadChan' = sendNonBlockingErr(PayloadChan, id)
                /\ bfErr' = [bfErr EXCEPT ![id] = TRUE]
                /\ ev' = Event("BackfillFetch", id, NoType, "fetchErr",
                               One(id, ErrPayload("fetch")), 0)
                /\ UNCHANGED bfLast
           ELSE IF res = "rlpErr"
           THEN /\ ev' = Event("BackfillFetch", id, NoType, "rlpErr", NoSend, 0)
                /\ UNCHANGED <<PayloadChan, bfErr, bfLast>>
           ELSE /\ PayloadChan' = TrySend(PayloadChan, id)
                /\ bfLast' = [bfLast EXCEPT ![id] = pl.Height]
                /\ ev' = Event("BackfillFetch", id, NoType, "sent", One(id, pl), 0)
                /\ UNCHANGED bfErr
    /\ bfLeft' = [bfLeft EXCEPT ![id] = @ - 1]
    /\ IF bfLeft[id] = 1
       THEN /\ bfI' = [bfI EXCEPT ![id] = NextBlock(@)]
            /\ bfPc' = [bfPc EXCEPT ![id] = "loop"]
       ELSE UNCHANGED <<bfI, bfPc>>
    /\ UNCHANGED <<Subscriptions, SubscriptionTypes, QuitChan, mutex, panicked, stops, called,
                   subParams, quitSignals, terminated, liveSeq, screenAndServePayload,
                   produced, servePc, servePayload, serveLeft, indexFirst, indexLast, bfEnd,
                   sentinels>>

----------------------------------------------------------------------------
(* The subscriber *)

\* the subscriber's stream loop takes one payload off its channel
Receive(id) ==
    /\ ~panicked
    /\ UNCHANGED queryVars
    /\ PayloadChan[id] > 0
    /\ PayloadChan' = [PayloadChan EXCEPT ![id] = @ - 1]
    /\ ev' = Idle
    /\ UNCHANGED <<Subscriptions, SubscriptionTypes, QuitChan, mutex, panicked, stops, called,
                   subParams, quitSignals, terminated, liveSeq, screenAndServePayload,
                   produced, servePc, servePayload, serveLeft, indexFirst, indexLast, bfPc,
                   bfI, bfEnd, bfLeft, bfLast, bfErr, sentinels>>

----------------------------------------------------------------------------
(* The engine after NewServer and Start *)

\* the filter specifications clients subscribe with
LiveParams ==
    { Settings(FALSE, FALSE, 0, 0, "a"),
      Settings(FALSE, FALSE, 0, 1, "b") }

BackfillParams ==
    { Settings(TRUE, FALSE, 1, 0, "a"),
      Settings(FALSE, TRUE, 1, 0, "a"),
      Settings(FALSE, FALSE, -1, 0, "a") }

\* every client may subscribe live; the first one may also ask for a backfill or pass
\* params that cannot be encoded
ParamsOf(id) == IF id = 1 THEN LiveParams \cup BackfillParams ELSE LiveParams

InitEngine ==
    /\ Subscriptions = EmptyMap
    /\ SubscriptionTypes = EmptyMap
    /\ QuitChan = "open"
    /\ mutex = "free"
    /\ panicked = FALSE
    /\ stops = 0
    /\ called = [id \in IDs |-> FALSE]
    /\ subParams = [id \in IDs |-> NoParams]
    /\ PayloadChan = [id \in IDs |-> 0]
    /\ quitSignals = [id \in IDs |-> 0]
    /\ terminated = [id \in IDs |-> FALSE]
    /\ liveSeq = [id \in IDs |-> 0]
    /\ screenAndServePayload = <<>>
    /\ produced = 0
    /\ servePc = "recv"
    /\ servePayload = NoBlock
    /\ serveLeft = {}
    /\ bfPc = [id \in IDs |-> "none"]
    /\ bfI = [id \in IDs |-> 0]
    /\ bfEnd = [id \in IDs |-> 0]
    /\ bfLeft = [id \in IDs |-> 0]
    /\ bfLast = [id \in IDs |-> -1]
    /\ bfErr = [id \in IDs |-> FALSE]
    /\ sentinels = [id \in IDs |-> 0]
    /\ ev = Idle

\* no transaction was begun
NoTx == <<>>

\* no retriever call is under way
NoReq == [op |-> "none"]

InitNoQuery ==
    /\ db = {}
    /\ req = NoReq
    /\ reply = <<>>
    /\ txn = NoTx

Init ==
    /\ InitEngine
    /\ InitNoQuery
    /\ indexFirst = 1
    /\ indexLast = 2

Next ==
    \/ \E id \in IDs : \E params \in ParamsOf(id), idxErr \in BOOLEAN : Subscribe(id, params, idxErr)
    \/ \E id \in IDs : Unsubscribe(id)
    \/ Stop
    \/ Produce
    \/ ServeRecv
    \/ ServeQuit
    \/ \E ty \in serveLeft, fails \in {"", "filterErr", "rlpErr"} : ServeBucket(ty, fails)
    \/ ServeDone
    \/ \E id \in IDs, res \in {"err", "empty", "ok"}, n \in 1..MaxHeaders : BackfillLoop(id, res, n)
    \/ \E id \in IDs, res \in {"ok", "fetchErr", "rlpErr"} : BackfillFetch(id, res)
    \/ \E id \in IDs : Receive(id)

Spec == Init /\ [][Next]_vars

----------------------------------------------------------------------------
(* The backfill of one subscription, for every range and every index *)

\* a backfill with live registration (BackFill) or without it (BackFillOnly)
RangeParams == {Settings(bf, ~bf, s, e, "a") : bf \in BOOLEAN, s \in Blocks, e \in Blocks}

InitRange ==
    /\ InitEngine
    /\ InitNoQuery
    /\ indexFirst \in Blocks
    /\ indexLast \in Blocks
    /\ indexFirst <= indexLast

NextRange ==
    \/ \E params \in RangeParams : Subscribe(1, params, FALSE)
    \/ Unsubscribe(1)
    \/ Stop
    \/ \E res \in {"err", "empty", "ok"}, n \in 1..MaxHeaders : BackfillLoop(1, res, n)
    \/ \E res \in {"ok", "fetchErr", "rlpErr"} : BackfillFetch(1, res)
    \/ Receive(1)

SpecRange == InitRange /\ [][NextRange]_vars

\* the steps of the backfill goroutine of subscription id
BackfillTask(id) ==
    \/ \E res \in {"err", "empty", "ok"}, n \in 1..MaxHeaders : BackfillLoop(id, res, n)
    \/ \E res \in {"ok", "fetchErr", "rlpErr"} : BackfillFetch(id, res)

\* the backfill goroutine is scheduled
SpecRangeFair == SpecRange /\ WF_vars(BackfillTask(1))

----------------------------------------------------------------------------
(* The live path alone: no backfill goroutine runs *)

LiveOnlyParams == LiveParams \cup {Settings(FALSE, TRUE, 1, 0, "a")}

NextLive ==
    \/ \E id \in IDs : \E params \in LiveOnlyParams : Subscribe(id, params, FALSE)
    \/ \E id \in IDs : Unsubscribe(id)
    \/ Stop
    \/ Produce
    \/ ServeRecv
    \/ ServeQuit
    \/ \E ty \in serveLeft, fails \in {"", "filterErr", "rlpErr"} : ServeBucket(ty, fails)
    \/ ServeDone
    \/ \E id \in IDs : Receive(id)

SpecLive == Init /\ [][NextLive]_vars

\* the steps of the Serve goroutine
ServeTask ==
    \/ ServeRecv
    \/ \E ty \in serveLeft, fails \in {"", "filterErr", "rlpErr"} : ServeBucket(ty, fails)
    \/ ServeDone

\* the Serve goroutine is scheduled; no subscriber has to read its channels
SpecLiveFair == SpecLive /\ WF_vars(ServeTask)

----------------------------------------------------------------------------
(* The CID retriever: log and receipt queries over the index database *)

\* topic positions of a filter and topic columns of a log row the model keeps
MaxTopics == 2

Headers == {"H1", "H2"}
TxHashes == {"T1", "T2"}
Addresses == {"a1", "a2"}
TopicVals == {"A", "B", "C"}

\* sequences over S of length at most n
SeqUpTo(S, n) == UNION {[1..k -> S] : k \in 0..n}

\* a row of eth.log_cids: the header and receipt it belongs to, its index in the block,
\* its address and its topics (topic0, topic1, ...: a missing topic is the empty string)
LogRow(h, rct, idx, addr, topics) ==
    [header |-> h, rct |-> rct, index |-> idx, address |-> addr, topics |-> topics]

\* the column eth.log_cids.topic<i> of a row
TopicColumn(row, i) == IF i < Len(row.topics) THEN row.topics[i + 1] ELSE ""

\* one conjunct of a WHERE clause: <column> = ANY (<any>)
Cond(col, pos, any) == [col |-> col, pos |-> pos, any |-> any]

Column(row, c) == IF c.col = "address" THEN row.address ELSE TopicColumn(row, c.pos)

\* the row satisfies every conjunct
RowPasses(conds, row) == \A c \in conds : Column(row, c) \in c.any

\* ReceiptFilter: LogAddresses, Topics (one set per position), MatchTxs
ReceiptFilter(addrs, topics, matchTxs) ==
    [LogAddresses |-> addrs, Topics |-> topics, MatchTxs |-> matchTxs]

hasTopics(topics) == \E i \in 1..Len(topics) : topics[i] # {}

\* mutant: the column number counts the non-empty topic sets only
topicFilterConditionPacked(topics) ==
    {Cond("topic", Cardinality({j \in 1..(i - 1) : topics[j] # {}}), topics[i]) :
        i \in {k \in 1..Len(topics) : topics[k] # {}}}

\* topicFilterCondition: topic<i> = ANY (Topics[i]) for every non-empty Topics[i]
topicFilterCondition(topics) ==
    {Cond("topic", i - 1, topics[i]) : i \in {k \in 1..Len(topics) : topics[k] # {}}}

\* logFilterCondition: the conjuncts appended to the log query
logFilterCondition(rctFilter) ==
    (IF rctFilter.LogAddresses # {}
     THEN {Cond("address", 0, rctFilter.LogAddresses)} ELSE {})
    \cup (IF hasTopics(rctFilter.Topics) THEN topicFilterCondition(rctFilter.Topics) ELSE {})

\* mutant: no ORDER BY, the rows come in any order
OrderByNothing(S) ==
    {q \in [1..Cardinality(S) -> S] : \A i, j \in 1..Cardinality(S) : i # j => q[i] # q[j]}

\* the sequences that list the rows of S once each in ascending index order (rows of
\* equal index in any order)
OrderByIndex(S) ==
    {q \in [1..Cardinality(S) -> S] :
        /\ \A i, j \in 1..Cardinality(S) : i # j => q[i] # q[j]
        /\ \A i, j \in 1..Cardinality(S) : i < j => q[i].index <= q[j].index}

\* the rows RetrieveFilteredLog selects for a block hash: the logs joined to their
\* receipt, transaction and header that pass the filter
FilteredLogRows(d, rctFilter, blockHash) ==
    {l \in d.logs :
        /\ \E r \in d.receipts, t \in d.txs :
              /\ l.rct = r.tx /\ l.header = r.header
              /\ r.tx = t.hash /\ r.header = t.header
              /\ t.header \in d.headers
              /\ t.header = blockHash
        /\ RowPasses(logFilterCondition(rctFilter), l)}

\* RetrieveFilteredLog(tx, rctFilter, 0, blockHash)
RetrieveFilteredLog(rctFilter, blockHash) ==
    /\ req = NoReq
    /\ req' = [op |-> "RetrieveFilteredLog", filter |-> rctFilter, hash |-> blockHash]
    /\ reply' \in OrderByIndex(FilteredLogRows(db, rctFilter, blockHash))
    /\ UNCHANGED <<db, txn, engineVars>>

\* a transaction of a header with its receipt
TxRow(h, hash, idx) == [header |-> h, hash |-> hash, index |-> idx]

RctRow(h, tx) == [header |-> h, tx |-> tx]

\* the filters a client may pass
LogFilters ==
    {ReceiptFilter(addrs, topics, FALSE) :
        addrs \in SUBSET Addresses, topics \in SeqUpTo(SUBSET TopicVals, MaxTopics)}

\* a block H1 with one transaction that logged twice: the first log is any log, the
\* second is absent or one of two fixed logs
InitLogFilter ==
    /\ InitEngine
    /\ indexFirst = 0
    /\ indexLast = 0
    /\ req = NoReq
    /\ reply = <<>>
    /\ txn = NoTx
    /\ \E addr \in Addresses, topics \in SeqUpTo(TopicVals, MaxTopics),
          more \in SUBSET {LogRow("H1", "T1", 1, "a1", <<"A", "C">>),
                           LogRow("H1", "T1", 1, "a2", <<"B">>)} :
          /\ Cardinality(more) <= 1
          /\ db = [headers |-> {"H1"},
                   txs |-> {TxRow("H1", "T1", 0)},
                   receipts |-> {RctRow("H1", "T1")},
                   logs |-> {LogRow("H1", "T1", 0, addr, topics)} \cup more]

NextLogFilter ==
    \E rctFilter \in LogFilters : RetrieveFilteredLog(rctFilter, "H1")

SpecLogFilter == InitLogFilter /\ [][NextLogFilter]_vars

\* the subquery SELECT rct_id FROM eth.log_cids WHERE <conds>: it reads the whole table
LogSubquery(d, conds) == {l.rct : l \in {x \in d.logs : RowPasses(conds, x)}}

\* OR receipt_cids.tx_id = ANY (txHashes), appended when MatchTxs is set and txHashes is
\* not empty
TxHashClause(rctFilter, txHashes, r) ==
    rctFilter.MatchTxs /\ txHashes # {} /\ r.tx \in txHashes

\* receiptFilterConditions: the condition appended to the receipt query, for receipt r
receiptFilterConditions(d, rctFilter, txHashes, r) ==
    IF rctFilter.LogAddresses # {}
    THEN \/ r.tx \in LogSubquery(d, {Cond("address", 0, rctFilter.LogAddresses)}
                                    \cup (IF hasTopics(rctFilter.Topics)
                                          THEN topicFilterCondition(rctFilter.Topics) ELSE {}))
         \/ TxHashClause(rctFilter, txHashes, r)
    ELSE IF hasTopics(rctFilter.Topics)
    THEN \/ r.tx \in LogSubquery(d, topicFilterCondition(rctFilter.Topics))
         \/ TxHashClause(rctFilter, txHashes, r)
    ELSE IF rctFilter.MatchTxs /\ txHashes # {}
    THEN r.tx \in txHashes
    ELSE TRUE

\* the receipts the query of RetrieveRctCIDs selects for a block hash
RctRows(d, rctFilter, blockHash, txHashes) ==
    {r \in d.receipts :
        /\ \E t \in d.txs : r.tx = t.hash /\ r.header = t.header /\ t.header \in d.headers
        /\ r.header = blockHash
        /\ receiptFilterConditions(d, rctFilter, txHashes, r)}

\* transaction_cids.index of the transaction of receipt r
TxIndexOf(d, r) == (CHOOSE t \in d.txs : t.hash = r.tx /\ t.header = r.header).index

\* ORDER BY transaction_cids.index
OrderByTxIndex(d, S) ==
    {q \in [1..Cardinality(S) -> S] :
        /\ \A i, j \in 1..Cardinality(S) : i # j => q[i] # q[j]
        /\ \A i, j \in 1..Cardinality(S) : i < j => TxIndexOf(d, q[i]) <= TxIndexOf(d, q[j])}

\* RetrieveRctCIDs(tx, rctFilter, 0, blockHash, txHashes)
RetrieveRctCIDs(rctFilter, blockHash, txHashes) ==
    /\ req = NoReq
    /\ req' = [op |-> "RetrieveRctCIDs", filter |-> rctFilter, hash |-> blockHash,
               txHashes |-> txHashes]
    /\ reply' \in OrderByTxIndex(db, RctRows(db, rctFilter, blockHash, txHashes))
    /\ UNCHANGED <<db, txn, engineVars>>

RctFilters ==
    {ReceiptFilter(addrs, topics, matchTxs) :
        addrs \in SUBSET Addresses, topics \in SeqUpTo(SUBSET {"A", "B"}, 1),
        matchTxs \in BOOLEAN}

\* the logs one receipt may have: none, or one log
OneLogOrNone(h, rct, idx) ==
    {{}} \cup {{LogRow(h, rct, idx, addr, <<t>>)} : addr \in Addresses, t \in {"A", "B"}}

\* two headers at one height: H1 holds T1 and T2, its sibling H2 holds T1 again; every
\* receipt has at most one log
InitRct ==
    /\ InitEngine
    /\ indexFirst = 0
    /\ indexLast = 0
    /\ req = NoReq
    /\ reply = <<>>
    /\ txn = NoTx
    /\ \E l1 \in OneLogOrNone("H1", "T1", 0), l2 \in OneLogOrNone("H1", "T2", 1),
          l3 \in OneLogOrNone("H2", "T1", 0) :
          db = [headers |-> {"H1", "H2"},
                txs |-> {TxRow("H1", "T1", 0), TxRow("H1", "T2", 1), TxRow("H2", "T1", 0)},
                receipts |-> {RctRow("H1", "T1"), RctRow("H1", "T2"), RctRow("H2", "T1")},
                logs |-> l1 \cup l2 \cup l3]

NextRct ==
    \E rctFilter \in RctFilters, blockHash \in Headers, txHashes \in SUBSET TxHashes :
        RetrieveRctCIDs(rctFilter, blockHash, txHashes)

SpecRct == InitRct /\ [][NextRct]_vars

\* logs one receipt holds at most
MaxLogsPerTx == 2

\* the rows RetrieveFilteredGQLLogs selects for a block hash: the logs joined to their
\* receipt that pass the filter
FilteredGQLLogRows(d, rctFilter, blockHash) ==
    {l \in d.logs :
        /\ \E r \in d.receipts : l.rct = r.tx /\ l.header = r.header /\ r.header = blockHash
        /\ RowPasses(logFilterCondition(rctFilter), l)}

\* RetrieveFilteredGQLLogs(tx, rctFilter, &blockHash, nil), as Resolver.GetLogs calls it
\* with the addresses of the request
RetrieveFilteredGQLLogs(rctFilter, blockHash) ==
    /\ req = NoReq
    /\ req' = [op |-> "RetrieveFilteredGQLLogs", filter |-> rctFilter, hash |-> blockHash]
    /\ reply' \in OrderByIndex(FilteredGQLLogRows(db, rctFilter, blockHash))
    /\ UNCHANGED <<db, txn, engineVars>>

\* the logs of one receipt, given their addresses in order: log_cids.index is the index
\* of the log in the block, so the logs of a receipt follow those of the receipts before
LogsAt(h, rct, first, addrs) ==
    {LogRow(h, rct, first + i - 1, addrs[i], <<"A">>) : i \in 1..Len(addrs)}

\* a block H1 of two transactions with up to MaxLogsPerTx logs each, and a sibling H2
\* that holds the first transaction again
InitLogOrder ==
    /\ InitEngine
    /\ indexFirst = 0
    /\ indexLast = 0
    /\ req = NoReq
    /\ reply = <<>>
    /\ txn = NoTx
    /\ \E a1 \in SeqUpTo(Addresses, MaxLogsPerTx), a2 \in SeqUpTo(Addresses, MaxLogsPerTx),
          a3 \in SeqUpTo({"a1"}, 1) :
          db = [headers |-> {"H1", "H2"},
                txs |-> {TxRow("H1", "T1", 0), TxRow("H1", "T2", 1), TxRow("H2", "T1", 0)},
                receipts |-> {RctRow("H1", "T1"), RctRow("H1", "T2"), RctRow("H2", "T1")},
                logs |-> LogsAt("H1", "T1", 0, a1) \cup LogsAt("H1", "T2", Len(a1), a2)
                         \cup LogsAt("H2", "T1", 0, a3)]

NextLogOrder ==
    \/ \E addrs \in SUBSET Addresses, blockHash \in Headers :
          RetrieveFilteredLog(ReceiptFilter(addrs, <<>>, FALSE), blockHash)
    \/ \E addrs \in SUBSET Addresses, blockHash \in Headers :
          RetrieveFilteredGQLLogs(ReceiptFilter(addrs, <<>>, FALSE), blockHash)

SpecLogOrder == InitLogOrder /\ [][NextLogOrder]_vars

----------------------------------------------------------------------------
(* The IPLD retriever: account lookups by block hash and by block number *)

\* heights of the indexed chain
MaxHeight == 3

Heights == 1..MaxHeight

\* the node types of eth.state_cids and eth.storage_cids rows
Leaf == 2
Removed == 3

\* a header row; canonical: canonical_header(block_number) is this header
HeaderRow(hash, number, canonical, parent) ==
    [hash |-> hash, number |-> number, canonical |-> canonical, parent |-> parent]

\* the canonical header of height n, and the non-canonical sibling at height 2 (its
\* parent is the canonical header of height 1)
CanonicalHash(n) == <<"c", n>>
SiblingHash == <<"s", 2>>

ChainHeaders ==
    {HeaderRow(CanonicalHash(n), n, TRUE, CanonicalHash(n - 1)) : n \in Heights}
    \cup {HeaderRow(SiblingHash, 2, FALSE, CanonicalHash(1))}

\* a state row of one account (state_leaf_key = keccak256(address)): the header that
\* wrote it, its node type and, for a leaf, the account; inBlocks: public.blocks holds a
\* row for its mh_key
StateRow(header, nodeType, account, inBlocks) ==
    [header |-> header, nodeType |-> nodeType, account |-> account, inBlocks |-> inBlocks]

\* the header row with the given hash, as a set (empty: unknown hash)
HeaderByHash(d, hash) == {h \in d.headers : h.hash = hash}

\* the state rows joined to their header and to public.blocks
JoinedStateRows(d) ==
    {[row |-> s, header |-> h] : s \in {x \in d.state : x.inBlocks},
                                 h \in {y \in d.headers : TRUE}}

\* ORDER BY block_number DESC LIMIT 1: the joined rows of the highest block
NewestOf(J) == {j \in J : \A k \in J : k.header.number <= j.header.number}

\* RetrieveAccountByLeafKeyAndBlockHashPgStr
AccountRowsByHash(d, hash) ==
    {j \in JoinedStateRows(d) :
        /\ j.row.header = j.header.hash
        /\ \E q \in HeaderByHash(d, hash) : j.header.number <= q.number
        /\ j.header.canonical}

\* RetrieveAccountByLeafKeyAndBlockNumberPgStr
AccountRowsByNumber(d, number) ==
    {j \in JoinedStateRows(d) : j.row.header = j.header.hash /\ j.header.number <= number}

\* rlp.DecodeBytes of the node and the two-element test: the data of a removed node is
\* empty and does not decode
DecodeLeaf(row) ==
    IF row.nodeType = Leaf THEN [err |-> "", data |-> row.account]
    ELSE [err |-> "decode", data |-> ""]

\* the result of db.Get on the rows J followed by the decoding
GetAndDecode(J) ==
    IF J = {} THEN {[err |-> "ErrNoRows", data |-> ""]}
    ELSE {DecodeLeaf(j.row) : j \in NewestOf(J)}

\* RetrieveAccountByAddressAndBlockHash(address, hash)
RetrieveAccountByAddressAndBlockHash(hash) ==
    /\ req = NoReq
    /\ req' = [op |-> "RetrieveAccountByAddressAndBlockHash", hash |-> hash, number |-> 0]
    /\ reply' \in GetAndDecode(AccountRowsByHash(db, hash))
    /\ UNCHANGED <<db, txn, engineVars>>

\* RetrieveAccountByAddressAndBlockNumber(address, number)
RetrieveAccountByAddressAndBlockNumber(number) ==
    /\ req = NoReq
    /\ req' = [op |-> "RetrieveAccountByAddressAndBlockNumber", hash |-> <<>>, number |-> number]
    /\ reply' \in GetAndDecode(AccountRowsByNumber(db, number))
    /\ UNCHANGED <<db, txn, engineVars>>

\* every header of the chain may have written the account
InitAccount ==
    /\ InitEngine
    /\ indexFirst = 0
    /\ indexLast = 0
    /\ req = NoReq
    /\ reply = <<>>
    /\ txn = NoTx
    /\ \E w \in [{h.hash : h \in ChainHeaders} -> BOOLEAN] :
       \E f \in [{h.hash : h \in ChainHeaders} ->
                    {StateRow(<<>>, Leaf, "acct1", TRUE), StateRow(<<>>, Leaf, "acct2", TRUE),
                     StateRow(<<>>, Removed, "", TRUE), StateRow(<<>>, Removed, "", FALSE)}] :
          /\ \A x \in DOMAIN w : ~w[x] => f[x] = StateRow(<<>>, Leaf, "acct1", TRUE)
          /\ db = [headers |-> ChainHeaders,
                   state |-> {[f[x] EXCEPT !.header = x] : x \in {y \in DOMAIN w : w[y]}}]

NextAccount ==
    \/ \E h \in ChainHeaders : RetrieveAccountByAddressAndBlockHash(h.hash)
    \/ \E n \in Heights : RetrieveAccountByAddressAndBlockNumber(n)

SpecAccount == InitAccount /\ [][NextAccount]_vars

----------------------------------------------------------------------------
(* The IPLD retriever: storage reads by block hash, and the GraphQL resolver over it *)

\* stateLeafKey, the hash of the address asked for, and the key of another contract
StateLeafKey == "K1"
OtherLeafKey == "K2"

\* the value returned for a deleted slot: []byte{}
EmptyBytes == "[]byte{}"

\* eth.EmptyNodeValue
EmptyNodeValue == "EmptyNodeValue"

\* a storage row: the header that wrote it, the state_leaf_key of its contract, its node
\* type, its path and, for a leaf, the slot value.  A leaf row carries the storage_leaf_key; a
\* removed row is found by its storage_path only.
StorageRow(header, stateKey, nodeType, path, value) ==
    [header |-> header, stateKey |-> stateKey, nodeType |-> nodeType, path |-> path,
     value |-> value]

\* the storage rows joined to their state row and header (and to public.blocks)
JoinedStorageRows(d) ==
    {[row |-> s, header |-> h] : s \in d.storage, h \in d.headers}

\* retrieveStorageInfoPgStr: the rows of the slot (state_leaf_key = $1 and
\* storage_leaf_key = $2, which the leaf rows carry) on canonical headers at or below
\* the block of the hash
StorageInfoRows(d, hash) ==
    {j \in JoinedStorageRows(d) :
        /\ j.row.header = j.header.hash
        /\ j.row.stateKey = StateLeafKey
        /\ j.row.nodeType = Leaf
        /\ \E q \in HeaderByHash(d, hash) : j.header.number <= q.number
        /\ j.header.canonical}

\* mutant: the deletion probe is not made
wasNodeDeletedNever(d, path, blockNumber, hash) == FALSE

\* wasNodeDeletedpgStr: exists a removed storage row on the path, and a header above
\* blockNumber and at or below the block of the hash; the query does not join the
\* header to the row
wasNodeDeleted(d, path, blockNumber, hash) ==
    \E s \in d.storage, h \in d.headers :
        /\ s.path = path
        /\ h.number > blockNumber
        /\ \E q \in HeaderByHash(d, hash) : h.number <= q.number
        /\ s.nodeType = Removed

\* db.Beginx succeeded
Beginx == <<"Beginx">>

\* shared.Rollback(tx) and tx.Commit() on the transaction t
Rollback(t) == Append(t, "Rollback")
Commit(t) == Append(t, "Commit")

\* the deferred function of a retriever: it rolls back on a panic or when the function's
\* variable err holds an error, else it commits.  In the storage read every error of
\* tx.Get is declared by its if statement (if err := ...; err != nil), so the function's
\* err is nil on those returns and on the successful ones.
Deferred(t, err, panics) ==
    IF panics THEN Rollback(t)
    ELSE IF err # "" THEN Rollback(t)
    ELSE Commit(t)

\* what the retriever returns for the candidate j
StorageResultOf(d, j, hash) ==
    IF wasNodeDeleted(d, j.row.path, j.header.number, hash)
    THEN [err |-> "", data |-> EmptyBytes]
    ELSE [err |-> "", data |-> j.row.value]

\* the results of RetrieveStorageAtByAddressAndStorageKeyAndBlockHash
StorageByHash(d, hash) ==
    IF StorageInfoRows(d, hash) = {}
    THEN {[err |-> "ErrNoRows", data |-> ""]}
    ELSE {StorageResultOf(d, j, hash) : j \in NewestOf(StorageInfoRows(d, hash))}

\* RetrieveStorageAtByAddressAndStorageKeyAndBlockHash(address, storageLeafKey, hash)
RetrieveStorageAtByAddressAndStorageKeyAndBlockHash(hash) ==
    /\ req = NoReq
    /\ req' = [op |-> "RetrieveStorageAtByAddressAndStorageKeyAndBlockHash", hash |-> hash]
    /\ reply' \in StorageByHash(db, hash)
    /\ txn' = Deferred(Beginx, "", FALSE)
    /\ UNCHANGED <<db, engineVars>>

\* mutant: the resolver passes sql.ErrNoRows on
OnErrNoRowsFail == [err |-> "ErrNoRows", value |-> ""]

\* Resolver.GetStorageAt on sql.ErrNoRows: StorageResult{value: []byte{}}, no error
OnErrNoRows == [err |-> "", value |-> EmptyBytes]

\* Resolver.GetStorageAt on the result r of the retriever
ResolveStorage(r) ==
    IF r.err = "ErrNoRows" THEN OnErrNoRows
    ELSE IF r.err # "" THEN [err |-> r.err, value |-> ""]
    ELSE IF r.data = EmptyNodeValue THEN [err |-> "", value |-> EmptyNodeValue]
    ELSE IF r.data = EmptyBytes THEN [err |-> "EOF", value |-> ""]
    ELSE [err |-> "", value |-> r.data]

\* Resolver.GetStorageAt(BlockHash, Contract, Slot)
GetStorageAt(hash) ==
    /\ req = NoReq
    /\ req' = [op |-> "GetStorageAt", hash |-> hash]
    /\ \E r \in StorageByHash(db, hash) : reply' = ResolveStorage(r)
    /\ txn' = Deferred(Beginx, "", FALSE)
    /\ UNCHANGED <<db, engineVars>>

\* every header of the chain may have written or removed the slot
InitStorage ==
    /\ InitEngine
    /\ indexFirst = 0
    /\ indexLast = 0
    /\ req = NoReq
    /\ reply = <<>>
    /\ txn = NoTx
    /\ \E w \in [{h.hash : h \in ChainHeaders} -> BOOLEAN] :
       \E f \in [{h.hash : h \in ChainHeaders} ->
                    {StorageRow(<<>>, StateLeafKey, Leaf, "p", "v1"), StorageRow(<<>>, StateLeafKey, Leaf, "p", "v2"),
                     StorageRow(<<>>, StateLeafKey, Removed, "p", "")}] :
          /\ \A x \in DOMAIN w : ~w[x] => f[x] = StorageRow(<<>>, StateLeafKey, Leaf, "p", "v1")
          /\ db = [headers |-> ChainHeaders,
                   storage |-> {[f[x] EXCEPT !.header = x] : x \in {y \in DOMAIN w : w[y]}}]

\* a hash no header has
UnknownHash == <<"u", 0>>

NextStorage ==
    \/ \E hash \in {h.hash : h \in ChainHeaders} \cup {UnknownHash} :
          RetrieveStorageAtByAddressAndStorageKeyAndBlockHash(hash)
    \/ \E hash \in {h.hash : h \in ChainHeaders} \cup {UnknownHash} : GetStorageAt(hash)

SpecStorage == InitStorage /\ [][NextStorage]_vars

----------------------------------------------------------------------------
(* The CID retriever: header lookups by block hash *)

MaxNumber == 2

\* the rows eth.header_cids can hold: a block hash at a block number
HeaderCIDRows == [hash : Headers, number : 1..MaxNumber]

\* RetrieveHeaderAndTxCIDsByBlockHash on the rows Find returned
HeaderRecordOf(rows) ==
    IF rows = {} THEN {[err |-> "errHeaderHashNotFound"]}
    ELSE IF Cardinality(rows) > 1 THEN {[err |-> "errMultipleHeadersForHash"]}
    ELSE {[err |-> "", header |-> h] : h \in rows}

\* the rows meeting the conditions: block_hash, and header_cids.block_number when a
\* block number is given (blockNumber is {} for nil)
HeaderConditions(d, blockHash, blockNumber) ==
    {h \in HeaderByHash(d, blockHash) : \A n \in blockNumber : h.number = n}

\* RetrieveHeaderAndTxCIDsByBlockHash(blockHash, blockNumber)
RetrieveHeaderAndTxCIDsByBlockHash(blockHash, blockNumber) ==
    /\ req = NoReq
    /\ req' = [op |-> "RetrieveHeaderAndTxCIDsByBlockHash", hash |-> blockHash,
               number |-> blockNumber]
    /\ reply' \in HeaderRecordOf(HeaderConditions(db, blockHash, blockNumber))
    /\ UNCHANGED <<db, txn, engineVars>>

\* tx.Get: sql.ErrNoRows when the query has no row, else the first row it returns
Get(rows) ==
    IF rows = {} THEN {[err |-> "ErrNoRows"]}
    ELSE {[err |-> "", header |-> h] : h \in rows}

\* RetrieveHeaderCIDByHash(tx, blockHash)
RetrieveHeaderCIDByHash(blockHash) ==
    /\ req = NoReq
    /\ req' = [op |-> "RetrieveHeaderCIDByHash", hash |-> blockHash]
    /\ reply' \in Get(HeaderByHash(db, blockHash))
    /\ UNCHANGED <<db, txn, engineVars>>

\* any set of header rows
InitHeader ==
    /\ InitEngine
    /\ indexFirst = 0
    /\ indexLast = 0
    /\ req = NoReq
    /\ reply = <<>>
    /\ txn = NoTx
    /\ \E rows \in SUBSET HeaderCIDRows : db = [headers |-> rows]

NextHeader ==
    \/ \E blockHash \in Headers, blockNumber \in {{}} \cup {{n} : n \in 1..MaxNumber} :
          RetrieveHeaderAndTxCIDsByBlockHash(blockHash, blockNumber)
    \/ \E blockHash \in Headers : RetrieveHeaderCIDByHash(blockHash)

SpecHeader == InitHeader /\ [][NextHeader]_vars

----------------------------------------------------------------------------
(* Read transactions of the retrievers and of the GraphQL resolvers *)

\* a return of a function that holds a transaction: the error it returns, the value of
\* its variable err at that point, and whether it left by a panic
Exit(ret, err) == [ret |-> ret, err |-> err, panics |-> FALSE]
PanicExit == [ret |-> "panic", err |-> "", panics |-> TRUE]

\* RetrieveHeaderCIDs: the header rows at a block number
HeaderCIDsAt(d, blockNumber) == {h \in d.headers : h.number = blockNumber}

\* the queries of RetrieveBlockByHash and RetrieveBlockByNumber after the header query
BlockSteps == {"uncle", "transaction", "receipt"}

\* RetrieveBlockByHash after Beginx; fault names the query the database fails, if any
BlockByHashExit(d, blockHash, fault) ==
    IF fault = "panic" THEN PanicExit
    ELSE IF fault = "header" THEN Exit("header", "header")
    ELSE IF HeaderByHash(d, blockHash) = {} THEN Exit("ErrNoRows", "ErrNoRows")
    ELSE IF fault \in BlockSteps THEN Exit(fault, fault)
    ELSE Exit("", "")

\* RetrieveBlockByNumber after Beginx: the error for no header at the height is returned
\* without being assigned to err
BlockByNumberExit(d, blockNumber, fault) ==
    IF fault = "panic" THEN PanicExit
    ELSE IF fault = "header" THEN Exit("header", "header")
    ELSE IF HeaderCIDsAt(d, blockNumber) = {} THEN Exit("no header CIDs found", "")
    ELSE IF fault \in BlockSteps THEN Exit(fault, fault)
    ELSE Exit("", "")

\* the queries of Retrieve per header, each made unless its filter is off
RetrieveSteps == {"uncle", "transaction", "receipt", "state", "storage"}

\* Retrieve after Beginx; filter is the set of queries whose filter is on
RetrieveExit(d, filter, blockNumber, fault) ==
    IF fault = "panic" THEN PanicExit
    ELSE IF fault = "header" THEN Exit("header", "header")
    ELSE IF HeaderCIDsAt(d, blockNumber) = {} THEN Exit("", "")
    ELSE IF fault \in filter THEN Exit(fault, fault)
    ELSE Exit("", "")

\* what a function that begins a transaction and defers its end returns when it leaves
\* by exit e, and the transaction it leaves behind
TxReply(fault, e) == IF fault = "Beginx" THEN [err |-> "Beginx"] ELSE [err |-> e.ret]
TxEnd(fault, e) == IF fault = "Beginx" THEN NoTx ELSE Deferred(Beginx, e.err, e.panics)

\* CIDRetriever.RetrieveBlockByHash(blockHash)
RetrieveBlockByHash(blockHash, fault) ==
    /\ req = NoReq
    /\ req' = [op |-> "RetrieveBlockByHash", hash |-> blockHash, fault |-> fault]
    /\ reply' = TxReply(fault, BlockByHashExit(db, blockHash, fault))
    /\ txn' = TxEnd(fault, BlockByHashExit(db, blockHash, fault))
    /\ UNCHANGED <<db, engineVars>>

\* CIDRetriever.RetrieveBlockByNumber(blockNumber)
RetrieveBlockByNumber(blockNumber, fault) ==
    /\ req = NoReq
    /\ req' = [op |-> "RetrieveBlockByNumber", number |-> blockNumber, fault |-> fault]
    /\ reply' = TxReply(fault, BlockByNumberExit(db, blockNumber, fault))
    /\ txn' = TxEnd(fault, BlockByNumberExit(db, blockNumber, fault))
    /\ UNCHANGED <<db, engineVars>>

\* CIDRetriever.Retrieve(filter, blockNumber)
Retrieve(filter, blockNumber, fault) ==
    /\ req = NoReq
    /\ req' = [op |-> "Retrieve", filter |-> filter, number |-> blockNumber,
               fault |-> fault]
    /\ reply' = TxReply(fault, RetrieveExit(db, filter, blockNumber, fault))
    /\ txn' = TxEnd(fault, RetrieveExit(db, filter, blockNumber, fault))
    /\ UNCHANGED <<db, engineVars>>

\* Resolver.GetLogs(BlockHash, Addresses): no deferred function; the transaction is
\* committed after the query and not ended on the return for a failed query
GetLogs(blockHash, addrs, fault) ==
    /\ req = NoReq
    /\ req' = [op |-> "GetLogs", hash |-> blockHash, addrs |-> addrs, fault |-> fault]
    /\ IF fault = "Beginx" THEN reply' = [err |-> "Beginx"] /\ txn' = NoTx
       ELSE IF fault = "query" THEN reply' = [err |-> "query"] /\ txn' = Beginx
       ELSE IF fault = "Commit" THEN reply' = [err |-> "Commit"] /\ txn' = Commit(Beginx)
       ELSE /\ \E logs \in OrderByIndex(FilteredGQLLogRows(db, ReceiptFilter(addrs, <<>>, FALSE),
                                                           blockHash)) :
                 reply' = [err |-> "", logs |-> logs]
            /\ txn' = Commit(Beginx)
    /\ UNCHANGED <<db, engineVars>>

\* the header records Resolver.AllEthHeaderCids collects before it begins its
\* transaction, or the error it returns; condition holds the block hash and the block
\* number given ({} for nil)
HeaderCIDsOf(d, condition) ==
    IF condition.hash # {}
    THEN {IF r.err = "" THEN [err |-> "", headers |-> {r.header}]
          ELSE IF r.err = "errHeaderHashNotFound" THEN [err |-> "", headers |-> {}]
          ELSE r :
             r \in UNION {HeaderRecordOf(HeaderConditions(d, h, condition.number)) :
                             h \in condition.hash}}
    ELSE IF condition.number # {}
    THEN {[err |-> "", headers |-> UNION {HeaderCIDsAt(d, n) : n \in condition.number}]}
    ELSE {[err |-> "provide block number or block hash"]}

\* Resolver.AllEthHeaderCids(Condition)
AllEthHeaderCids(condition, fault) ==
    /\ req = NoReq
    /\ req' = [op |-> "AllEthHeaderCids", condition |-> condition, fault |-> fault]
    /\ \E r \in HeaderCIDsOf(db, condition) :
          IF fault = "retrieve" /\ (condition.hash # {} \/ condition.number # {})
          THEN reply' = [err |-> "retrieve"] /\ txn' = NoTx
          ELSE IF r.err # "" THEN reply' = r /\ txn' = NoTx
          ELSE IF fault = "Beginx" THEN reply' = [err |-> "Beginx"] /\ txn' = NoTx
          ELSE IF fault = "panic"
          THEN reply' = [err |-> "panic"] /\ txn' = Deferred(Beginx, "", TRUE)
          ELSE reply' = r /\ txn' = Deferred(Beginx, "", FALSE)
    /\ UNCHANGED <<db, engineVars>>

\* the chain with the storage rows of one slot, and one receipt with one log
InitTx ==
    /\ InitEngine
    /\ indexFirst = 0
    /\ indexLast = 0
    /\ req = NoReq
    /\ reply = <<>>
    /\ txn = NoTx
    /\ \E w \in SUBSET {h.hash : h \in ChainHeaders}, nodeType \in {Leaf, Removed} :
          db = [headers |-> ChainHeaders,
                storage |-> {StorageRow(x, StateLeafKey, nodeType, "p", "v1") : x \in w},
                receipts |-> {RctRow(CanonicalHash(1), "T1")},
                logs |-> {LogRow(CanonicalHash(1), "T1", 0, "a1", <<"A">>)}]

\* block hashes and block numbers asked for: those of the chain and one more
AskedHashes == {h.hash : h \in ChainHeaders} \cup {UnknownHash}
AskedNumbers == 1..(MaxHeight + 1)

NextTx ==
    \/ \E hash \in AskedHashes : RetrieveStorageAtByAddressAndStorageKeyAndBlockHash(hash)
    \/ \E hash \in AskedHashes, fault \in {"", "Beginx", "header", "panic"} \cup BlockSteps :
          RetrieveBlockByHash(hash, fault)
    \/ \E number \in AskedNumbers, fault \in {"", "Beginx", "header", "panic"} \cup BlockSteps :
          RetrieveBlockByNumber(number, fault)
    \/ \E filter \in {{}, {"transaction"}, RetrieveSteps}, number \in AskedNumbers,
          fault \in {"", "Beginx", "header", "panic"} \cup RetrieveSteps :
          Retrieve(filter, number, fault)
    \/ \E hash \in AskedHashes, addrs \in SUBSET {"a1"},
          fault \in {"", "Beginx", "query", "Commit"} :
          GetLogs(hash, addrs, fault)
    \/ \E hash \in {{}} \cup {{h} : h \in AskedHashes},
          number \in {{}} \cup {{n} : n \in AskedNumbers},
          fault \in {"", "retrieve", "Beginx", "panic"} :
          AllEthHeaderCids([hash |-> hash, number |-> number], fault)

SpecTx == InitTx /\ [][NextTx]_vars

----------------------------------------------------------------------------
(* Storage reads next to the rows of another contract and of a sibling header *)

\* what a header may have written on the path of the slot: the slot of the contract
\* asked for, its removal, or a removal in the storage trie of the other contract
PathRows ==
    {StorageRow(<<>>, StateLeafKey, Leaf, "p", "v1"),
     StorageRow(<<>>, StateLeafKey, Removed, "p", ""),
     StorageRow(<<>>, OtherLeafKey, Removed, "p", "")}

InitProbe ==
    /\ InitEngine
    /\ indexFirst = 0
    /\ indexLast = 0
    /\ req = NoReq
    /\ reply = <<>>
    /\ txn = NoTx
    /\ \E w \in SUBSET {h.hash : h \in ChainHeaders} :
       \E f \in [w -> PathRows] :
          db = [headers |-> ChainHeaders,
                storage |-> {[f[x] EXCEPT !.header = x] : x \in w}]

NextProbe ==
    \/ \E hash \in {h.hash : h \in ChainHeaders} :
          RetrieveStorageAtByAddressAndStorageKeyAndBlockHash(hash)
    \/ \E hash \in {h.hash : h \in ChainHeaders} : GetStorageAt(hash)

SpecProbe == InitProbe /\ [][NextProbe]_vars

----------------------------------------------------------------------------
(* Claims *)

\* C1: calling Stop a second time after a first Stop has completed finishes normally
\* (no panic, the mutex is released) and leaves the subscription map and the params
\* map empty.
StopTwiceIsSafe ==
    (ev.op = "Stop" /\ stops >= 2) =>
        /\ ~panicked
        /\ mutex = "free"
        /\ Subscriptions = EmptyMap
        /\ SubscriptionTypes = EmptyMap

\* a data payload (live or backfill) is tried on the payload channel of id in this step
DataSentTo(id) == id \in DOMAIN ev.sent /\ ev.sent[id].Data # NoData

\* C2: once a subscription has been terminated (Unsubscribe, its bucket closed, or Stop)
\* no further data payload, live or backfill, is sent on its payload channel.
NoDeliveryAfterTermination ==
    [][\A id \in IDs : terminated[id] => ~DataSentTo(id)']_vars

\* the intersection of [Start, End] with [indexFirst, indexLast], End = 0: no upper bound
InIntersection(i, params) ==
    /\ params.Start <= i
    /\ params.End = 0 \/ i <= params.End
    /\ indexFirst <= i
    /\ i <= indexLast

\* C3: the backfill task retrieves and sends only blocks of the intersection of
\* [params.Start, params.End] with [indexFirst, indexLast].
BackfillIteratesIntersection ==
    \A id \in IDs :
        /\ bfPc[id] = "fetch" => InIntersection(bfI[id], subParams[id])
        /\ DataSentTo(id) /\ ev.op = "BackfillFetch" =>
               InIntersection(ev.sent[id].Height, subParams[id])


\* C4: live payloads are tried on each subscription in the order the Serve loop received
\* them from the indexer channel: every live send to a subscription is for a later
\* payload than the one before.
LiveOrder ==
    [][\A id \in IDs :
          (ev'.op = "ServeBucket" /\ id \in DOMAIN ev'.sent) => liveSeq'[id] > liveSeq[id]]_vars

LiveOrderWitness == liveSeq[2] = 2 /\ PayloadChan[2] = 2

\* C5: subscribers registered with identical params share one bucket; the filter runs
\* once per payload for a served bucket and every member is sent the same payload.
FanOutSame ==
    /\ \A i \in Registered, j \in Registered :
          subParams[i] = subParams[j] =>
              \E ty \in DOMAIN Subscriptions : {i, j} \subseteq Subscriptions[ty]
    /\ (ev.op = "ServeBucket" /\ ev.out = "served") =>
          /\ ev.calls = 1
          /\ \A i \in DOMAIN ev.sent, j \in DOMAIN ev.sent : ev.sent[i] = ev.sent[j]

FanOutSameWitness ==
    /\ ev.op = "ServeBucket"
    /\ ev.out = "served"
    /\ DOMAIN ev.sent = IDs
    /\ ev.drop = {}

\* C6: the data payloads of one backfill are sent in ascending block order, and when the
\* loop finishes one BackFillComplete notice is tried, after which no backfill data
\* payload is sent.
BackfillAscending ==
    [][\A id \in IDs :
          /\ (ev'.op = "BackfillFetch" /\ ev'.id = id /\ ev'.out = "sent") =>
                /\ ev'.sent[id].Height >= bfLast[id]
                /\ sentinels[id] = 0
          /\ (bfPc[id] = "loop" /\ bfPc'[id] = "done") =>
                /\ sentinels'[id] = 1
                /\ ev'.sent = One(id, CompletePayload)
          /\ sentinels'[id] <= 1]_vars

BackfillAscendingWitness ==
    /\ ev.op = "BackfillLoop"
    /\ ev.out = "complete"
    /\ bfLast[ev.id] = indexLast
    /\ PayloadChan[ev.id] >= 2

\* a step of the live fan-out or of a backfill tries a send to id while the channel of id
\* is full
DroppedSend(id) ==
    /\ ev'.op \in {"ServeBucket", "BackfillLoop", "BackfillFetch"}
    /\ id \in DOMAIN ev'.sent
    /\ ~CanSend(PayloadChan, id)

\* C7: a payload tried on a full channel is dropped: the sender goes on, the subscription
\* stays registered, no quit signal is sent, and the fan-out still tries every member.
FullChannelDrops ==
    /\ [][\A id \in IDs :
            DroppedSend(id) =>
                /\ PayloadChan'[id] = PayloadChan[id]
                /\ quitSignals'[id] = quitSignals[id]
                /\ id \in Registered => id \in Registered'
                /\ ev'.op = "ServeBucket" => serveLeft' = serveLeft \ {ev'.ty}
                /\ ev'.op # "ServeBucket" => bfPc'[id] \in {"loop", "fetch", "done"}]_vars
    /\ [](ev.op = "ServeBucket" /\ ev.out = "served" => DOMAIN ev.sent = Subscriptions[ev.ty])

FullChannelDropsWitness ==
    /\ ev.op = "ServeBucket"
    /\ ev.drop # {}
    /\ ev.drop \subseteq Registered

\* C8: an error of Retrieve or Fetch at block i does not end the backfill or the
\* subscription: the loop goes on with the next wrapper or block, no quit signal is sent,
\* the maps are unchanged, and a finished backfill has tried its completion notice.
BackfillErrorsContinue ==
    /\ [][\A id \in IDs :
            /\ (ev'.op = "BackfillLoop" /\ ev'.id = id /\ ev'.out = "retrieveErr") =>
                  /\ bfI'[id] = bfI[id] + 1
                  /\ bfPc'[id] = "loop"
                  /\ quitSignals' = quitSignals
                  /\ Subscriptions' = Subscriptions
                  /\ SubscriptionTypes' = SubscriptionTypes
            /\ (ev'.op = "BackfillFetch" /\ ev'.id = id /\ ev'.out = "fetchErr") =>
                  /\ IF bfLeft[id] > 1
                     THEN bfPc'[id] = "fetch" /\ bfI'[id] = bfI[id] /\ bfLeft'[id] = bfLeft[id] - 1
                     ELSE bfPc'[id] = "loop" /\ bfI'[id] = bfI[id] + 1
                  /\ quitSignals' = quitSignals
                  /\ Subscriptions' = Subscriptions
                  /\ SubscriptionTypes' = SubscriptionTypes]_vars
    /\ [](\A id \in IDs : bfErr[id] /\ bfPc[id] \notin {"loop", "fetch", "quit"} =>
                              bfPc[id] = "done" /\ sentinels[id] = 1)

BackfillErrorsContinueWitness ==
    \E id \in IDs : bfErr[id] /\ bfPc[id] = "done" /\ sentinels[id] = 1 /\ id \in Registered

\* C9: Subscribe with encodable params and BackFillOnly = false registers id in the bucket
\* keyed by keccak256(rlp(params)) and records the params for that key; with
\* BackFillOnly = true it changes neither map, and such a subscription is never in a
\* bucket and never tried with a live payload.
SubscribeRegisters ==
    /\ [][\A id \in IDs :
            (called'[id] /\ ~called[id] /\ RlpEncodable(subParams'[id])) =>
                IF subParams'[id].BackFillOnly
                THEN Subscriptions' = Subscriptions /\ SubscriptionTypes' = SubscriptionTypes
                ELSE /\ SubscriptionType(subParams'[id]) \in DOMAIN Subscriptions'
                     /\ id \in Subscriptions'[SubscriptionType(subParams'[id])]
                     /\ SubscriptionType(subParams'[id]) \in DOMAIN SubscriptionTypes'
                     /\ SubscriptionTypes'[SubscriptionType(subParams'[id])] = subParams'[id]]_vars
    /\ [](\A id \in IDs : subParams[id].BackFillOnly => id \notin Registered /\ liveSeq[id] = 0)

SubscribeRegistersWitness ==
    /\ ev.op = "Subscribe"
    /\ ev.id \in Registered
    /\ \E id \in IDs : called[id] /\ subParams[id].BackFillOnly

\* C10: Unsubscribe(id) leaves id in no bucket, removes the buckets it emptied together
\* with their params, keeps every other subscription in its bucket with the same params,
\* and sends no quit signal and no payload.
UnsubscribeFrame ==
    [][ev'.op = "Unsubscribe" =>
          /\ ev'.id \notin Registered'
          /\ \A ty \in DOMAIN Subscriptions' : Subscriptions'[ty] # {}
          /\ \A ty \in DOMAIN Subscriptions :
                IF Subscriptions[ty] \ {ev'.id} = {}
                THEN ty \notin DOMAIN Subscriptions' /\ ty \notin DOMAIN SubscriptionTypes'
                ELSE /\ ty \in DOMAIN Subscriptions'
                     /\ Subscriptions'[ty] = Subscriptions[ty] \ {ev'.id}
                     /\ ty \in DOMAIN SubscriptionTypes'
                     /\ SubscriptionTypes'[ty] = SubscriptionTypes[ty]
          /\ DOMAIN Subscriptions' \subseteq DOMAIN Subscriptions
          /\ quitSignals' = quitSignals
          /\ PayloadChan' = PayloadChan]_vars

UnsubscribeFrameWitness ==
    /\ ev.op = "Unsubscribe"
    /\ ev.out = "removed"
    /\ Registered # {}
    /\ Cardinality(DOMAIN Subscriptions) = 1

\* C11: Unsubscribe is idempotent: an Unsubscribe(id) that directly follows an
\* Unsubscribe(id) changes nothing of the engine, the maps after any Unsubscribe(id) are a
\* fixed point of Unsubscribe(id), and Unsubscribe of an id that is in no bucket changes
\* neither map and does not fail.
UnsubscribeIdempotent ==
    /\ [][/\ (ev.op = "Unsubscribe" /\ ev'.op = "Unsubscribe" /\ ev'.id = ev.id) =>
                /\ Subscriptions' = Subscriptions
                /\ SubscriptionTypes' = SubscriptionTypes
                /\ UNCHANGED <<QuitChan, quitSignals, PayloadChan, terminated, mutex, panicked>>
          /\ (ev'.op = "Unsubscribe" /\ ev'.id \notin Registered) =>
                /\ Subscriptions' = Subscriptions
                /\ SubscriptionTypes' = SubscriptionTypes
                /\ ~panicked'
                /\ mutex' = "free"]_vars
    /\ [](ev.op = "Unsubscribe" =>
             /\ UnsubscribeSubs(Subscriptions, ev.id) = Subscriptions
             /\ UnsubscribeTypes(Subscriptions, SubscriptionTypes, ev.id) = SubscriptionTypes)

UnsubscribeIdempotentWitness ==
    /\ ev.op = "Unsubscribe"
    /\ ev.out = "absent"
    /\ terminated[ev.id]
    /\ Registered # {}
    /\ DOMAIN SubscriptionTypes # {}

\* C12: when Stop returns the quit channel is closed, a quit signal has been tried on every
\* subscription that was registered when Stop ran, and the subscription map and the params
\* map are empty.
StopClosesAll ==
    [][(ev'.op = "Stop" /\ ev'.out = "closed") =>
          /\ QuitChan' = "closed"
          /\ \A id \in IDs :
                quitSignals'[id] = quitSignals[id] + (IF id \in Registered THEN 1 ELSE 0)
          /\ Subscriptions' = EmptyMap
          /\ SubscriptionTypes' = EmptyMap
          /\ mutex' = "free"]_vars

StopClosesAllWitness ==
    /\ ev.op = "Stop"
    /\ ev.out = "closed"
    /\ produced = 0
    /\ \A id \in IDs : quitSignals[id] = 1 /\ terminated[id]

\* the step closes bucket ty without filtering or sending: every member is sent a quit
\* signal and the bucket and its params are removed
BucketClosedUnserved(ty) ==
    /\ \A id \in IDs :
          quitSignals'[id] = quitSignals[id] + (IF id \in Subscriptions[ty] THEN 1 ELSE 0)
    /\ ty \notin DOMAIN Subscriptions'
    /\ ty \notin DOMAIN SubscriptionTypes'
    /\ ev'.calls = 0
    /\ ev'.sent = NoSend
    /\ PayloadChan' = PayloadChan

\* the step filters the payload for bucket ty and, unless the filter or the encoding
\* fails, tries the response on every member
BucketFilteredAndServed(ty) ==
    /\ ev'.calls = 1
    /\ ev'.out \in {"served", "filterErr", "rlpErr"}
    /\ ev'.out = "served" =>
          /\ DOMAIN ev'.sent = Subscriptions[ty]
          /\ Subscriptions' = Subscriptions
          /\ SubscriptionTypes' = SubscriptionTypes
          /\ quitSignals' = quitSignals

\* C13 as stated: in the live path a bucket whose params.End is less than the payload's
\* block number is closed and dropped unserved, and every other bucket is filtered and
\* served.
EndBelowNumberCloses ==
    [][ev'.op = "ServeBucket" =>
          IF SubscriptionTypes[ev'.ty].End < servePayload.number
          THEN BucketClosedUnserved(ev'.ty)
          ELSE BucketFilteredAndServed(ev'.ty)]_vars

\* C13 (amended): in the live path a bucket whose params.End is positive and less than
\* the payload's block number is closed and dropped unserved; every other bucket, those
\* with End = 0 (no end) included, is filtered and served.
PositiveEndBelowNumberCloses ==
    [][ev'.op = "ServeBucket" =>
          IF SubscriptionTypes[ev'.ty].End > 0 /\ SubscriptionTypes[ev'.ty].End < servePayload.number
          THEN BucketClosedUnserved(ev'.ty)
          ELSE BucketFilteredAndServed(ev'.ty)]_vars

PositiveEndBelowNumberClosesWitness ==
    /\ ev.op = "ServeBucket"
    /\ ev.out = "outOfRange"
    /\ quitSignals[1] = 1
    /\ 2 \in Registered
    /\ liveSeq[2] = 2
    /\ liveSeq[1] = 1

\* the log passes the filter: its address is listed (or no address is), and at every
\* position with a non-empty topic list its topic is listed
LogMatches(l, rctFilter) ==
    /\ rctFilter.LogAddresses = {} \/ l.address \in rctFilter.LogAddresses
    /\ \A i \in 1..Len(rctFilter.Topics) :
          rctFilter.Topics[i] # {} => TopicColumn(l, i - 1) \in rctFilter.Topics[i]

\* the rows a reply lists
Listed(q) == {q[i] : i \in 1..Len(q)}

\* C15: the logs returned for a filter are exactly the logs of the block that pass it:
\* address listed or no address given, and topic_i listed at every position i with a
\* non-empty list; empty lists and positions beyond the matrix match anything.  For the
\* matrix [[A,B],[C]] these are the logs with topic0 in {A,B} and topic1 = C.
LogFilterExact ==
    req.op = "RetrieveFilteredLog" =>
        /\ Listed(reply) = {l \in db.logs : l.header = req.hash /\ LogMatches(l, req.filter)}
        /\ req.filter.Topics = <<{"A", "B"}, {"C"}>> /\ req.filter.LogAddresses = {} =>
              Listed(reply) = {l \in db.logs : /\ l.header = req.hash
                                               /\ TopicColumn(l, 0) \in {"A", "B"}
                                               /\ TopicColumn(l, 1) = "C"}

LogFilterExactWitness ==
    /\ req.op = "RetrieveFilteredLog"
    /\ req.filter.Topics = <<{}, {"C"}>>
    /\ req.filter.LogAddresses = {"a1"}
    /\ Len(reply) = 1
    /\ Cardinality(db.logs) = 2

\* the logs of receipt r: the log rows of its transaction in its header
LogsOfReceipt(d, r) == {l \in d.logs : l.rct = r.tx /\ l.header = r.header}

\* C14: RetrieveRctCIDs returns, among the receipts of the header, exactly those with a
\* log of theirs that passes the address and topic restrictions, or (MatchTxs set) with
\* tx_id in txHashes; with no address, topic or tx-hash restriction it returns every
\* receipt of the header.
ReceiptSelectionIsOr ==
    req.op = "RetrieveRctCIDs" =>
        LET logRestricted == req.filter.LogAddresses # {} \/ hasTopics(req.filter.Topics)
            txRestricted == req.filter.MatchTxs /\ req.txHashes # {}
            ofHeader == {r \in db.receipts : r.header = req.hash}
        IN  Listed(reply) =
               IF ~logRestricted /\ ~txRestricted THEN ofHeader
               ELSE {r \in ofHeader :
                        \/ logRestricted /\ \E l \in LogsOfReceipt(db, r) : LogMatches(l, req.filter)
                        \/ txRestricted /\ r.tx \in req.txHashes}

\* transaction_cids.index of the transaction that emitted log l
TxIndexOfLog(d, l) == (CHOOSE t \in d.txs : t.hash = l.rct /\ t.header = l.header).index

\* (tx_index, log_index) of l1 is before that of l2
LogBefore(d, l1, l2) ==
    \/ TxIndexOfLog(d, l1) < TxIndexOfLog(d, l2)
    \/ TxIndexOfLog(d, l1) = TxIndexOfLog(d, l2) /\ l1.index < l2.index

\* C16: the logs returned for a block hash are the matching logs of that block, in
\* strictly ascending (tx_index, log_index) order.
LogsAscending ==
    req.op \in {"RetrieveFilteredLog", "RetrieveFilteredGQLLogs"} =>
        /\ \A i, j \in 1..Len(reply) : i < j => LogBefore(db, reply[i], reply[j])
        /\ Listed(reply) = {l \in db.logs : l.header = req.hash /\ LogMatches(l, req.filter)}

LogsAscendingWitness ==
    /\ req.op = "RetrieveFilteredGQLLogs"
    /\ req.hash = "H1"
    /\ Len(reply) = 3
    /\ Cardinality(db.logs) = 5
    /\ reply[1].rct = "T1"
    /\ reply[3].rct = "T2"

\* the headers of the chain that ends in the header of the given hash
RECURSIVE ChainOf(_, _)
ChainOf(d, hash) ==
    IF HeaderByHash(d, hash) = {} THEN {}
    ELSE {hash} \cup ChainOf(d, (CHOOSE h \in HeaderByHash(d, hash) : TRUE).parent)

\* the state rows written by the headers of the chain, newest first
NewestStateRow(d, chain) ==
    {s \in d.state :
        /\ s.header \in chain
        /\ \A t \in d.state : t.header \in chain =>
              (CHOOSE h \in HeaderByHash(d, t.header) : TRUE).number
                 <= (CHOOSE h \in HeaderByHash(d, s.header) : TRUE).number}

EmptyAccount == [err |-> "", data |-> "empty account"]

\* C17: a lookup by the hash of a canonical header whose newest state row for the
\* account at or below that block is a removal reports the empty account, not an error
\* and not an older leaf; when the newest row is a leaf (also one after a removal) it
\* reports that leaf.
RemovedAccountIsEmpty ==
    (req.op = "RetrieveAccountByAddressAndBlockHash"
        /\ \E h \in HeaderByHash(db, req.hash) : h.canonical) =>
        \A s \in NewestStateRow(db, ChainOf(db, req.hash)) :
            IF s.nodeType = Removed THEN reply = EmptyAccount
            ELSE reply = [err |-> "", data |-> s.account]

\* what a lookup answers when it reads the state rows of the headers of one chain
ReadOfChain(d, chain) ==
    GetAndDecode({j \in JoinedStateRows(d) :
                     j.row.header = j.header.hash /\ j.header.hash \in chain})

\* C19: with the canonical header H1 and its sibling H2 at height 2, a lookup by number 2
\* reads the state rows of H1's chain and a lookup by hash H2 reads the state rows of
\* H2's chain.
CanonicityIsolation ==
    /\ (req.op = "RetrieveAccountByAddressAndBlockNumber" /\ req.number = 2) =>
          reply \in ReadOfChain(db, ChainOf(db, CanonicalHash(2)))
    /\ (req.op = "RetrieveAccountByAddressAndBlockHash" /\ req.hash = SiblingHash) =>
          reply \in ReadOfChain(db, ChainOf(db, SiblingHash))

\* the block number of the header that wrote a row
NumberOf(d, row) == (CHOOSE h \in HeaderByHash(d, row.header) : TRUE).number

\* a removed row lies on the path of candidate j at a block strictly later than the
\* candidate's and at or below the block of the hash
RemovedAfter(d, j, hash) ==
    \E s \in d.storage :
        /\ s.nodeType = Removed
        /\ s.path = j.row.path
        /\ NumberOf(d, s) > j.header.number
        /\ \E q \in HeaderByHash(d, hash) : NumberOf(d, s) <= q.number

\* C18: a storage read by block hash returns the empty value when a removed row lies on
\* the candidate leaf's path at a block strictly later than the candidate's and at or
\* below the queried block, whatever the candidate holds; otherwise it returns the value
\* of the newest leaf at or below the queried block.
DeletionProbeForcesEmpty ==
    req.op = "RetrieveStorageAtByAddressAndStorageKeyAndBlockHash" =>
        \A j \in NewestOf(StorageInfoRows(db, req.hash)) :
            IF RemovedAfter(db, j, req.hash)
            THEN reply.err = "" /\ reply.data \in {EmptyBytes, EmptyNodeValue}
            ELSE reply = [err |-> "", data |-> j.row.value]

\* C20: a storage read through the resolver for a slot with no storage leaf at or below
\* the block returns the empty value and no error.
MissingStorageIsEmpty ==
    (req.op = "GetStorageAt" /\ StorageInfoRows(db, req.hash) = {}) =>
        reply = [err |-> "", value |-> EmptyBytes]

MissingStorageIsEmptyWitness ==
    /\ req.op = "GetStorageAt"
    /\ req.hash = CanonicalHash(1)
    /\ StorageInfoRows(db, req.hash) = {}
    /\ StorageInfoRows(db, CanonicalHash(2)) # {}
    /\ reply.value = EmptyBytes

\* the outcome a header lookup must have on the rows that match it
LookupOutcome(rows) ==
    /\ rows = {} => reply.err \in {"ErrNoRows", "errHeaderHashNotFound"}
    /\ Cardinality(rows) > 1 => reply.err = "errMultipleHeadersForHash"
    /\ Cardinality(rows) = 1 => reply.err = "" /\ reply.header \in rows

\* C21: every header lookup by hash fails with NotFound when no row matches, with
\* MultipleHeaders when more than one row matches, and returns the header when exactly
\* one row matches.
HeaderByHashOutcome ==
    /\ req.op = "RetrieveHeaderAndTxCIDsByBlockHash" =>
          LookupOutcome(HeaderConditions(db, req.hash, req.number))
    /\ req.op = "RetrieveHeaderCIDByHash" => LookupOutcome(HeaderByHash(db, req.hash))

\* the retrievers that open a read transaction with a deferred end
TxRetrievers ==
    {"Retrieve", "RetrieveBlockByHash", "RetrieveBlockByNumber",
     "RetrieveStorageAtByAddressAndStorageKeyAndBlockHash"}

\* C22: a retrieval that opens a read transaction rolls it back when it returns an error
\* or panics, commits it only when it succeeds, and returns at once, with no
\* transaction, when the transaction cannot be begun.
TxEndsByOutcome ==
    req.op \in TxRetrievers =>
        /\ (reply.err # "" /\ txn # NoTx) => txn = Rollback(Beginx)
        /\ reply.err = "" => txn = Commit(Beginx)
        /\ txn = NoTx => reply.err = "Beginx"

\* C29: a transaction begun by a GraphQL resolver is ended exactly once, by a commit or
\* by a rollback, on every return.
ResolverTxEndsOnce ==
    (req.op \in {"GetLogs", "AllEthHeaderCids"} /\ txn # NoTx) =>
        txn \in {Commit(Beginx), Rollback(Beginx)}

\* the step modifies the subscription map or the params map
MapsModified ==
    Subscriptions' # Subscriptions \/ SubscriptionTypes' # SubscriptionTypes

\* C23: the subscription map and the params map are modified, and the fan-out iterates,
\* only under the engine mutex: Subscribe, Unsubscribe and Stop modify them only when
\* they can take the mutex, filterAndServe only while it holds it, and while
\* filterAndServe holds it no other operation modifies them.
MapsUnderMutex ==
    [][/\ MapsModified =>
             \/ mutex = "free" /\ ev'.op \in {"Subscribe", "Unsubscribe", "Stop"}
             \/ mutex = "serve" /\ ev'.op = "ServeBucket"
       /\ ev'.op = "ServeBucket" => mutex = "serve" /\ mutex' = "serve"]_vars

MapsUnderMutexWitness ==
    /\ mutex = "serve"
    /\ ev.op = "ServeBucket"
    /\ ev.out = "outOfRange"
    /\ serveLeft # {}
    /\ \A id \in IDs : called[id]

\* C24: no send made under the engine mutex blocks: whenever filterAndServe or Stop
\* holds the mutex it is released again, whether or not any subscriber reads from its
\* channels.
MutexReleased == (mutex # "free") ~> (mutex = "free")

\* the backfill goroutine of id has returned, or none was started
BackfillEnded(id) == bfPc[id] \in {"none", "done", "quit"}

\* C25: once Stop has closed the quit channel every backfill task ends; a task checks the
\* quit channel at the top of each block, and when it finds it closed it retrieves
\* nothing and sends nothing for that block, and takes no step afterwards.
BackfillStopsAtQuit ==
    /\ (QuitChan = "closed") ~> (panicked \/ \A id \in IDs : BackfillEnded(id))
    /\ [][\A id \in IDs :
             /\ (/\ QuitChan = "closed"
                 /\ InRange(bfI[id], bfEnd[id])
                 /\ ev'.op = "BackfillLoop"
                 /\ ev'.id = id) =>
                    ev'.out = "quit" /\ ev'.sent = NoSend /\ bfPc'[id] = "quit"
             /\ bfPc[id] = "quit" =>
                    /\ bfPc'[id] = "quit"
                    /\ ~(ev'.op \in {"BackfillLoop", "BackfillFetch"} /\ ev'.id = id)]_vars

BackfillStopsAtQuitWitness ==
    /\ QuitChan = "closed"
    /\ bfPc[1] = "quit"
    /\ bfLast[1] >= 1
    /\ bfI[1] <= bfEnd[1]

\* C26: whenever the engine mutex is free the subscription map and the params map have
\* the same keys and no bucket is empty.
MapsAgree ==
    mutex = "free" =>
        /\ DOMAIN Subscriptions = DOMAIN SubscriptionTypes
        /\ \A ty \in DOMAIN Subscriptions : Subscriptions[ty] # {}

MapsAgreeWitness ==
    /\ mutex = "free"
    /\ servePc = "recv"
    /\ \E id \in IDs : terminated[id] /\ quitSignals[id] = 1
    /\ \E id \in IDs : id \in Registered
    /\ Cardinality(DOMAIN SubscriptionTypes) = 1

\* C27: a Subscribe that fails, because the params cannot be encoded or because the
\* backfill cannot start, tries an error and a quit signal on the subscriber and leaves
\* it out of the subscription map.
FailedSubscribeUnregistered ==
    [][(ev'.op = "Subscribe" /\ ev'.out \in {"rlpErr", "backfillErr"}) =>
          /\ ev'.id \in DOMAIN ev'.sent
          /\ ev'.sent[ev'.id].Err # ""
          /\ quitSignals'[ev'.id] = quitSignals[ev'.id] + 1
          /\ ev'.id \notin Registered']_vars

\* the buckets other than ty and their params are as before the step
OtherBucketsKept(ty) ==
    /\ \A t \in (DOMAIN Subscriptions) \ {ty} :
          t \in DOMAIN Subscriptions' /\ Subscriptions'[t] = Subscriptions[t]
    /\ \A t \in (DOMAIN SubscriptionTypes) \ {ty} :
          t \in DOMAIN SubscriptionTypes' /\ SubscriptionTypes'[t] = SubscriptionTypes[t]

\* C28: in the live fan-out a filter error closes the bucket (a quit signal is tried on
\* every member, the bucket and its params are removed) and the remaining buckets are
\* still served that payload; an encoding error keeps the bucket and sends it nothing.
FanOutErrors ==
    [][/\ (ev'.op = "ServeBucket" /\ ev'.out = "filterErr") =>
             /\ \A id \in IDs :
                   quitSignals'[id] = quitSignals[id]
                                      + (IF id \in Subscriptions[ev'.ty] THEN 1 ELSE 0)
             /\ ev'.ty \notin DOMAIN Subscriptions'
             /\ ev'.ty \notin DOMAIN SubscriptionTypes'
             /\ OtherBucketsKept(ev'.ty)
             /\ ev'.sent = NoSend
             /\ serveLeft' = serveLeft \ {ev'.ty}
             /\ servePayload' = servePayload
       /\ (ev'.op = "ServeBucket" /\ ev'.out = "rlpErr") =>
             /\ Subscriptions' = Subscriptions
             /\ SubscriptionTypes' = SubscriptionTypes
             /\ quitSignals' = quitSignals
             /\ PayloadChan' = PayloadChan
             /\ ev'.sent = NoSend
             /\ serveLeft' = serveLeft \ {ev'.ty}
       /\ (mutex = "serve" /\ mutex' = "free") => serveLeft = {}
       /\ (ev'.op = "ServeBucket" /\ ev'.out = "served") =>
             DOMAIN ev'.sent = Subscriptions[ev'.ty]]_vars

FanOutErrorsWitness ==
    /\ ev.op = "ServeBucket"
    /\ ev.out = "served"
    /\ produced = 1
    /\ stops = 0
    /\ \E id \in IDs : quitSignals[id] = 1 /\ terminated[id]

\* a removed row of the contract asked for, written by a canonical header, lies on the path
RemovedOnCanonicalChain(d, path) ==
    \E s \in d.storage, h \in d.headers :
        /\ s.header = h.hash
        /\ h.canonical
        /\ s.stateKey = StateLeafKey
        /\ s.nodeType = Removed
        /\ s.path = path

\* C30: the slot is reported empty only when a removed row of the queried contract on the
\* canonical chain lies on its path; removed rows of another contract's storage trie or
\* of a non-canonical header do not count.
ProbeCountsOwnCanonicalRows ==
    (/\ req.op = "RetrieveStorageAtByAddressAndStorageKeyAndBlockHash"
     /\ reply.err = ""
     /\ reply.data = EmptyBytes) =>
        \A j \in NewestOf(StorageInfoRows(db, req.hash)) :
            RemovedOnCanonicalChain(db, j.row.path)

====
